---- MODULE Spec2Model ----
(***************************************************************************)
(* Model of the multiclustertunnel runtime: the Hub TunnelManager, Tunnel  *)
(* and PacketConn (pkg/server), the Hub HTTP front-end, and the Agent      *)
(* packet-connection manager (pkg/agent).                                  *)
(*                                                                         *)
(* Go mutexes are modelled by their holder.  A critical section that makes *)
(* no blocking call is one atomic step guarded by the mutex being free; a  *)
(* critical section that calls into another lock (Tunnel.Close,            *)
(* TunnelManager.NewTunnel, packetConnection.Send) keeps the mutex over    *)
(* several steps.                                                          *)
(***************************************************************************)
EXTENDS Integers, Sequences, FiniteSets, TLC

\* ------------------------------------------------------------------ bounds
MaxTunnels == 3          \* gRPC streams (Server.Tunnel calls) opened by agents
MaxSessions == 2         \* sessions one Agent.Run establishes
MaxRequests == 2         \* HTTP requests served by the Hub front-end
MaxChunks == 1           \* chunks a client writes on its hijacked socket
MaxData == 2             \* DATA packets a Hub Tunnel receives from its agent
OutgoingCap == 2         \* stands for the 1000 of make(chan *v1.Packet, 1000)
IncomingCap == 1         \* stands for the 100 of make(chan *v1.Packet, 100)
MaxAgentPackets == 3     \* packets an Agent receives from its stream
AgentOutgoingCap == 1    \* stands for outgoingChanSize = 150
AgentIncomingCap == 2    \* stands for incomingChanSize = 150

Clusters == {"c1"}
Tunnels == 1..MaxTunnels
Requests == 1..MaxRequests
Nil == 0

\* ----------------------------------------------------------------- threads
NoOne == <<"none", 0>>
Srv(t) == <<"srv", t>>      \* the goroutine running Server.Tunnel for stream t
Http(h) == <<"http", h>>    \* the goroutine running ServeHTTP for request h
Pump(h) == <<"pump", h>>    \* the client->agent pump goroutine of request h
Threads == {Srv(t) : t \in Tunnels} \cup {Http(h) : h \in Requests}

\* ----------------------------------------------------------------- packets
\* v1.Packet.  Data is a byte string; a non-empty payload carries, as its two
\* bytes, the connection it was produced for and a serial number.
Packet(k, code, data, msg) ==
    [ConnId |-> k, Code |-> code, Data |-> data, ErrorMessage |-> msg]
DataPacket(k, data) == Packet(k, "DATA", data, 0)
ErrorPacket(k, msg) == Packet(k, "ERROR", <<>>, msg)
\* error messages, as numbers (0: none)
MsgUnknownConn == 1      \* "unknown packet connection %d"
MsgAgent == 2            \* a message an agent put in an ERROR packet
MsgDispatch == 4         \* err.Error() of the error Dispatch returned
Payload(origin, n) == <<origin, n>>
\* The bytes of the synthetic response forwardAgentToClient writes for an ERROR.
BadGateway(msg) == <<502, msg>>
\* conn ids an agent may put in a packet: those the Hub hands out, and one more
ConnIds == 1..(MaxRequests + 1)

\* ------------------------------------------------------- ClusterNameParser
\* A request URI is a sequence of tokens: "/" or a path segment.
ClusterPath == <<"/", "c1", "/", "x">>
RequestURIs == {<<>>, <<"c1">>, <<"/">>, <<"/", "c2">>, <<"/", "c1">>, ClusterPath}
\* the names a URI can parse to
ClusterNames == Clusters \cup {"", "c2"}

\* strings.Split(s, "/"): the segments between the separators, empty ones kept.
RECURSIVE Split(_)
Split(s) ==
    IF s = <<>> THEN << <<>> >>
    ELSE LET rest == Split(Tail(s)) IN
         IF Head(s) = "/" THEN << <<>> >> \o rest
         ELSE << <<Head(s)>> \o Head(rest) >> \o Tail(rest)

\* The string a segment spells.
SegmentName(seg) == IF seg = <<>> THEN "" ELSE seg[1]

\* clusterNameParserImplt.ParseClusterName: an error when the URI has fewer
\* than two segments, else the second one.
ParseClusterName(uri) ==
    LET urlparams == Split(uri) IN
    IF Len(urlparams) < 2
      THEN [clusterName |-> "", err |-> TRUE]
      ELSE [clusterName |-> SegmentName(urlparams[2]), err |-> FALSE]

VARIABLES
    \* TunnelManager
    tunnels,      \* tm.tunnels: cluster name -> tunnel object (Nil: no entry)
    tmMu,         \* tm.mu holder
    clock,        \* last value time.Now().UnixNano() returned
    \* Tunnel objects, one per stream
    tId,          \* t.id (0: the object does not exist yet)
    tCluster,     \* t.clusterName
    tClosed,      \* t.closed
    tInit,        \* t.initialized
    tOut,         \* t.outgoingChan: [st: "nil" | "open" | "closed", q: packets]
    tConns,       \* t.packetConns: the registered packet connections
    tNext,        \* t.nextPacketConnID
    tMu,          \* t.mu holder
    streamDone,   \* the stream's context is done and Recv fails
    crashed,      \* an unrecovered panic ended the process
    \* Server.Tunnel goroutine of stream t, its Close call, its two workers
    sp,           \* position in Server.Tunnel / NewTunnel / Serve
    cTarget,      \* the tunnel whose Close() the goroutine executes
    cStage,       \* position in Tunnel.Close
    cLeft,        \* packet connections the range loop of Close has not visited
    rd,           \* handleIncoming: "off" | "run" | "exited"
    wr,           \* handleOutgoing: "off" | "run" | "exited"
    drained,      \* handleIncoming received a DRAIN packet
    recvLog,      \* conn ids of the DATA packets handleIncoming received, in order
    errLog,       \* registered conn ids handleIncoming received an ERROR packet for
    \* closeWithError call frame of a goroutine
    cw,           \* [pc, stage: "none" | "lock" | "remove", err]
    \* HTTP request h, its packetConnection and its pumps
    hp,           \* position in ServeHTTP
    hTun,         \* the tunnel GetTunnel returned
    hUri,         \* r.RequestURI
    hCtxDone,     \* the 30 s context of the request is done
    status,       \* HTTP status written by http.Error (0: none)
    pcId,         \* pc.id (0: no packetConnection)
    pcClosed,     \* pc.closed
    pcErr,        \* pc.closeError (0: nil)
    pcCancelled,  \* pc.cancel() was called
    pcMu,         \* pc.mu holder
    pcIn,         \* pc.incomingChan
    c2a,          \* forwardClientToAgent: position
    a2c,          \* forwardAgentToClient: position
    chunks,       \* chunks the client has written so far
    clientOpen,   \* the hijacked client socket is open
    written,      \* what was written to the client socket
    \* Agent: serve(), the Dispatch goroutines, packetConnManagerImpl
    aServing,     \* serve() runs on an established stream
    aLog,         \* the packets processIncoming received, in order
    rcvOn,        \* packet -> the grpcStream its goroutine holds (0: not received)
    gp,           \* position of the Dispatch goroutine of the i-th packet
    glc,          \* the packetConn its lookup returned
    conns,        \* p.localConnections: conn id -> packetConn (0: no entry)
    lcId,         \* lc.id (0: the packetConn does not exist)
    lcIn,         \* lc.incoming
    lcClosed,     \* lc.ctx cancelled, lc.conn closed, lc.incoming closed
    lcOut,        \* what was written to lc.conn
    pw,           \* processIncomingPackets(lc): "off" | "run" | "exited"
    lr,           \* readFromConnection(lc): "off" | "run" | "exited"
    aOut,         \* p.outgoing
    aSent,        \* the packets the Agent's goroutines sent on the gRPC stream
    inSend,       \* the Agent's goroutines that are inside grpcStream.Send
    \* packetConnManagerImpl.Close
    pCtxDone,     \* p.ctx is cancelled
    aOutClosed,   \* p.outgoing is closed
    aPanic,       \* a goroutine of the Agent panicked and nothing recovered it
    \* Agent.Run: the main loop, the session and the service proxy
    aCtxDone,     \* the ctx given to Run is cancelled
    ap,           \* the main loop: "loop" | "serve" | "backoff" | "returned"
    aStream,      \* the stream of the latest session (0: none yet)
    aConns,       \* the sessions whose grpc.ClientConn is open
    egress,       \* the sessions whose processOutgoing goroutine has not returned
    aRecv,        \* processIncoming of the session: "off" | "run" | "exited"
    drain,        \* goroutine 3 of serve: "off" | "wait" | "sending" | "sent" |
                  \* "failed" | "timeout"
    px,           \* c.proxy.Run: "run" | "returned"
    aRun          \* Run(): "run" | "returned"

hubVars == <<tunnels, tmMu, clock, tId, tCluster, tClosed, tInit, tOut, tConns,
             tNext, tMu, streamDone, crashed, sp, cTarget, cStage, cLeft, rd, wr,
             drained, recvLog, errLog, cw, hp, hTun, hUri, hCtxDone, status, pcId,
             pcClosed, pcErr, pcCancelled, pcMu, pcIn, c2a, a2c, chunks, clientOpen,
             written>>

runVars == <<aServing, aCtxDone, ap, aStream, aConns, egress, aRecv, drain, px,
            aRun>>

\* The grpc.ClientConn of the latest session is open.
aConnOpen == aStream \in aConns

connVars == <<aLog, rcvOn, gp, glc, conns, lcId, lcIn, lcClosed, lcOut, pw, lr, aOut>>

mgrVars == <<pCtxDone, aOutClosed, aPanic>>

agentVars == <<runVars, connVars, aSent, inSend, mgrVars>>

vars == <<hubVars, agentVars>>

\* ------------------------------------------------------------------ helpers
NoFrame == [pc |-> 0, stage |-> "none", err |-> 0]

\* pc.ctx is a child of the request context: done when either is cancelled.
PcCtxDone(h) == pcCancelled[h] \/ hCtxDone[h]

\* A map delete with a comparison where equality was meant.
LookupUpTo(t, k) == {h \in tConns[t] : pcId[h] <= k}

\* A map lookup that forgets the key: any registered packet connection.
LookupAnyConn(t, k) == tConns[t]

\* t.packetConns[k]: the registered packet connections with id k.
Lookup(t, k) == {h \in tConns[t] : pcId[h] = k}

\* The Hub after New(): an empty registry.  T are the streams agents will
\* open, R the requests clients will make (the others never start) and U the
\* request URIs the clients use.
HubRequests(T, R, U) ==
    /\ tunnels = [c \in Clusters |-> Nil]
    /\ tmMu = NoOne
    /\ clock = 1
    /\ tId = [t \in Tunnels |-> 0]
    /\ tCluster = [t \in Tunnels |-> "c1"]
    /\ tClosed = [t \in Tunnels |-> FALSE]
    /\ tInit = [t \in Tunnels |-> FALSE]
    /\ tOut = [t \in Tunnels |-> [st |-> "nil", q |-> <<>>]]
    /\ tConns = [t \in Tunnels |-> {}]
    /\ tNext = [t \in Tunnels |-> 0]
    /\ tMu = [t \in Tunnels |-> NoOne]
    /\ streamDone = [t \in Tunnels |-> FALSE]
    /\ crashed = FALSE
    /\ sp = [t \in Tunnels |-> IF t \in T THEN "idle" ELSE "off"]
    /\ cTarget = [t \in Tunnels |-> Nil]
    /\ cStage = [t \in Tunnels |-> "none"]
    /\ cLeft = [t \in Tunnels |-> {}]
    /\ rd = [t \in Tunnels |-> "off"]
    /\ wr = [t \in Tunnels |-> "off"]
    /\ drained = [t \in Tunnels |-> FALSE]
    /\ recvLog = [t \in Tunnels |-> <<>>]
    /\ errLog = [t \in Tunnels |-> {}]
    /\ cw = [x \in Threads |-> NoFrame]
    /\ hp = [h \in Requests |-> IF h \in R THEN "idle" ELSE "off"]
    /\ hTun = [h \in Requests |-> Nil]
    /\ hUri \in [Requests -> U]
    /\ hCtxDone = [h \in Requests |-> FALSE]
    /\ status = [h \in Requests |-> 0]
    /\ pcId = [h \in Requests |-> 0]
    /\ pcClosed = [h \in Requests |-> FALSE]
    /\ pcErr = [h \in Requests |-> 0]
    /\ pcCancelled = [h \in Requests |-> FALSE]
    /\ pcMu = [h \in Requests |-> NoOne]
    /\ pcIn = [h \in Requests |-> <<>>]
    /\ c2a = [h \in Requests |-> "off"]
    /\ a2c = [h \in Requests |-> "off"]
    /\ chunks = [h \in Requests |-> 0]
    /\ clientOpen = [h \in Requests |-> FALSE]
    /\ written = [h \in Requests |-> <<>>]

\* The Hub with clients that all ask for a path of cluster c1.
HubInit(T, R) == HubRequests(T, R, {ClusterPath})

\* The Hub while Tunnel t serves and the requests R, which GetTunnel gave t,
\* are in forwardTraffic: the packet connections are registered, the handlers'
\* packets and the clients' chunks have gone out to the agent.
HubForwarding(t, R) ==
    /\ tunnels = [c \in Clusters |-> t]
    /\ tmMu = NoOne
    /\ clock = 1
    /\ tId = [x \in Tunnels |-> IF x = t THEN 1 ELSE 0]
    /\ tCluster = [x \in Tunnels |-> "c1"]
    /\ tClosed = [x \in Tunnels |-> FALSE]
    /\ tInit = [x \in Tunnels |-> x = t]
    /\ tOut = [x \in Tunnels |-> [st |-> IF x = t THEN "open" ELSE "nil", q |-> <<>>]]
    /\ tConns = [x \in Tunnels |-> IF x = t THEN R ELSE {}]
    /\ tNext = [x \in Tunnels |-> IF x = t THEN Cardinality(R) ELSE 0]
    /\ tMu = [x \in Tunnels |-> NoOne]
    /\ streamDone = [x \in Tunnels |-> FALSE]
    /\ crashed = FALSE
    /\ sp = [x \in Tunnels |-> IF x = t THEN "wait" ELSE "off"]
    /\ cTarget = [x \in Tunnels |-> Nil]
    /\ cStage = [x \in Tunnels |-> "none"]
    /\ cLeft = [x \in Tunnels |-> {}]
    /\ rd = [x \in Tunnels |-> IF x = t THEN "run" ELSE "off"]
    /\ wr = [x \in Tunnels |-> IF x = t THEN "run" ELSE "off"]
    /\ drained = [x \in Tunnels |-> FALSE]
    /\ recvLog = [x \in Tunnels |-> <<>>]
    /\ errLog = [x \in Tunnels |-> {}]
    /\ cw = [x \in Threads |-> NoFrame]
    /\ hp = [h \in Requests |-> IF h \in R THEN "forward" ELSE "off"]
    /\ hTun = [h \in Requests |-> IF h \in R THEN t ELSE Nil]
    /\ hUri = [h \in Requests |-> ClusterPath]
    /\ hCtxDone = [h \in Requests |-> FALSE]
    /\ status = [h \in Requests |-> 0]
    /\ pcId = [h \in Requests |-> IF h \in R THEN h ELSE 0]
    /\ pcClosed = [h \in Requests |-> FALSE]
    /\ pcErr = [h \in Requests |-> 0]
    /\ pcCancelled = [h \in Requests |-> FALSE]
    /\ pcMu = [h \in Requests |-> NoOne]
    /\ pcIn = [h \in Requests |-> <<>>]
    /\ c2a = [h \in Requests |-> IF h \in R THEN "read" ELSE "off"]
    /\ a2c = [h \in Requests |-> IF h \in R THEN "recv" ELSE "off"]
    /\ chunks = [h \in Requests |-> IF h \in R THEN MaxChunks ELSE 0]
    /\ clientOpen = [h \in Requests |-> h \in R]
    /\ written = [h \in Requests |-> <<>>]

tmVars == <<tunnels, tmMu, clock>>
tunVars == <<tId, tCluster, tClosed, tInit, tOut, tConns, tNext, tMu>>
srvVars == <<sp, cTarget, cStage, cLeft>>
wrkVars == <<rd, wr, drained, recvLog, errLog>>
reqVars == <<hp, hTun, hUri, hCtxDone, status>>
pcVars == <<pcId, pcClosed, pcErr, pcCancelled, pcMu, pcIn>>
pumpVars == <<c2a, a2c, chunks, clientOpen, written>>

Alive == ~crashed

\* ------------------------------------------------- TunnelManager.NewTunnel
\* Server.Tunnel calls NewTunnel: tm.mu.Lock(), the lookup, and the call of
\* existingTunnel.Close() when the cluster has an entry.
NewTunnel(t, c) ==
    /\ Alive /\ sp[t] = "idle" /\ tmMu = NoOne
    /\ tmMu' = Srv(t)
    /\ tCluster' = [tCluster EXCEPT ![t] = c]
    /\ IF tunnels[c] # Nil
         THEN /\ cTarget' = [cTarget EXCEPT ![t] = tunnels[c]]
              /\ cStage' = [cStage EXCEPT ![t] = "lock"]
              /\ sp' = [sp EXCEPT ![t] = "replace"]
         ELSE /\ sp' = [sp EXCEPT ![t] = "create"]
              /\ UNCHANGED <<cTarget, cStage>>
    /\ UNCHANGED <<agentVars, tunnels, clock, tId, tClosed, tInit, tOut, tConns, tNext, tMu,
                   streamDone, crashed, cLeft, wrkVars, cw, reqVars, pcVars, pumpVars>>

\* generateTunnelID: "tunnel-<time.Now().UnixNano()>".  The reading is the
\* previous one or a later one.
generateTunnelID(now) == now

\* The rest of NewTunnel: create the Tunnel, store it, tm.mu.Unlock().
NewTunnelStore(t) ==
    /\ Alive /\ tmMu = Srv(t)
    /\ \/ sp[t] = "create"
       \/ sp[t] = "replace" /\ cStage[t] = "none"
    /\ \E now \in {clock, clock + 1} :
          /\ clock' = now
          /\ tId' = [tId EXCEPT ![t] = generateTunnelID(now)]
    /\ tunnels' = [tunnels EXCEPT ![tCluster[t]] = t]
    /\ tmMu' = NoOne
    /\ sp' = [sp EXCEPT ![t] = "serve"]
    /\ UNCHANGED <<agentVars, tCluster, tClosed, tInit, tOut, tConns, tNext, tMu, streamDone,
                   crashed, cTarget, cStage, cLeft, wrkVars, cw, reqVars, pcVars,
                   pumpVars>>

\* ------------------------------------------------------------ Tunnel.Close
\* t.mu.Lock(); if t.closed { return }; t.closed = true
CloseLock(t) ==
    /\ Alive /\ cStage[t] = "lock"
    /\ LET x == cTarget[t] IN
       /\ tMu[x] = NoOne
       /\ IF tClosed[x]
            THEN /\ cStage' = [cStage EXCEPT ![t] = "none"]
                 /\ cTarget' = [cTarget EXCEPT ![t] = Nil]
                 /\ UNCHANGED <<tMu, tClosed, cLeft>>
            ELSE /\ tMu' = [tMu EXCEPT ![x] = Srv(t)]
                 /\ tClosed' = [tClosed EXCEPT ![x] = TRUE]
                 /\ cLeft' = [cLeft EXCEPT ![t] = tConns[x]]
                 /\ cStage' = [cStage EXCEPT ![t] = "range"]
                 /\ UNCHANGED cTarget
    /\ UNCHANGED <<agentVars, tmVars, tId, tCluster, tInit, tOut, tConns, tNext, streamDone,
                   crashed, sp, wrkVars, cw, reqVars, pcVars, pumpVars>>

\* for _, packetConn := range t.packetConns { packetConn.closeWithError(...) }
MsgTunnelClosed == 3     \* fmt.Errorf("connection closed")
CloseRange(t, h) ==
    /\ Alive /\ cStage[t] = "range" /\ cw[Srv(t)].stage = "none"
    /\ h \in cLeft[t]
    /\ cLeft' = [cLeft EXCEPT ![t] = @ \ {h}]
    /\ cw' = [cw EXCEPT ![Srv(t)] = [pc |-> h, stage |-> "lock", err |-> MsgTunnelClosed]]
    /\ UNCHANGED <<agentVars, tmVars, tunVars, streamDone, crashed, sp, cTarget, cStage,
                   wrkVars, reqVars, pcVars, pumpVars>>

\* t.packetConns = make(map); close(t.outgoingChan) if it is not nil; Unlock
CloseFinish(t) ==
    /\ Alive /\ cStage[t] = "range" /\ cw[Srv(t)].stage = "none"
    /\ cLeft[t] = {}
    /\ LET x == cTarget[t] IN
       /\ tConns' = [tConns EXCEPT ![x] = {}]
       /\ tOut' = [tOut EXCEPT ![x] =
                      IF @.st = "nil" THEN @ ELSE [st |-> "closed", q |-> @.q]]
       /\ tMu' = [tMu EXCEPT ![x] = NoOne]
    /\ cStage' = [cStage EXCEPT ![t] = "none"]
    /\ cTarget' = [cTarget EXCEPT ![t] = Nil]
    /\ UNCHANGED <<agentVars, tmVars, tId, tCluster, tClosed, tInit, tNext, streamDone,
                   crashed, sp, cLeft, wrkVars, cw, reqVars, pcVars, pumpVars>>

\* ------------------------------------------ packetConnection.closeWithError
\* pc.mu.Lock(); if pc.closed { Unlock; return }; closed, closeError, cancel
closeWithError(x) ==
    /\ Alive /\ cw[x].stage = "lock"
    /\ LET h == cw[x].pc IN
       /\ pcMu[h] = NoOne
       /\ IF pcClosed[h]
            THEN /\ cw' = [cw EXCEPT ![x] = NoFrame]
                 /\ UNCHANGED <<pcClosed, pcErr, pcCancelled>>
            ELSE /\ pcClosed' = [pcClosed EXCEPT ![h] = TRUE]
                 /\ pcErr' = [pcErr EXCEPT ![h] = cw[x].err]
                 /\ pcCancelled' = [pcCancelled EXCEPT ![h] = TRUE]
                 /\ cw' = [cw EXCEPT ![x].stage = "remove"]
    /\ UNCHANGED <<agentVars, tmVars, tunVars, streamDone, crashed, srvVars, wrkVars,
                   reqVars, pcId, pcMu, pcIn, pumpVars>>

\* Tunnel.removePacketConn, called by closeWithError after pc.mu.Unlock():
\* t.mu.Lock(); delete(t.packetConns, id); Unlock
removePacketConn(x) ==
    /\ Alive /\ cw[x].stage = "remove"
    /\ LET h == cw[x].pc
           t == hTun[h] IN
       /\ tMu[t] = NoOne
       /\ tConns' = [tConns EXCEPT ![t] = @ \ Lookup(t, pcId[h])]
    /\ cw' = [cw EXCEPT ![x] = NoFrame]
    /\ UNCHANGED <<agentVars, tmVars, tId, tCluster, tClosed, tInit, tOut, tNext, tMu,
                   streamDone, crashed, srvVars, wrkVars, reqVars, pcVars, pumpVars>>

\* ------------------------------------------------------------ Tunnel.Serve
\* t.mu.Lock(); outgoingChan = make(...); packetConns = make(...);
\* initialized = 1; Unlock; start handleIncoming and handleOutgoing.
Serve(t) ==
    /\ Alive /\ sp[t] = "serve" /\ tMu[t] = NoOne
    /\ tOut' = [tOut EXCEPT ![t] = [st |-> "open", q |-> <<>>]]
    /\ tConns' = [tConns EXCEPT ![t] = {}]
    /\ tInit' = [tInit EXCEPT ![t] = TRUE]
    /\ rd' = [rd EXCEPT ![t] = "run"]
    /\ wr' = [wr EXCEPT ![t] = "run"]
    /\ sp' = [sp EXCEPT ![t] = "wait"]
    /\ UNCHANGED <<agentVars, tmVars, tId, tCluster, tClosed, tNext, tMu, streamDone, crashed,
                   cTarget, cStage, cLeft, drained, recvLog, errLog, cw, reqVars, pcVars,
                   pumpVars>>

\* err := <-errCh; t.Close()
ServeCleanup(t) ==
    /\ Alive /\ sp[t] = "wait"
    /\ rd[t] = "exited" \/ wr[t] = "exited"
    /\ cTarget' = [cTarget EXCEPT ![t] = t]
    /\ cStage' = [cStage EXCEPT ![t] = "lock"]
    /\ sp' = [sp EXCEPT ![t] = "cleanup"]
    /\ UNCHANGED <<agentVars, tmVars, tunVars, streamDone, crashed, cLeft, wrkVars, cw,
                   reqVars, pcVars, pumpVars>>

\* Serve returns; Server.Tunnel calls RemoveTunnel(clusterName, conn.ID()) and
\* returns, which ends the stream and cancels its context.
RemoveTunnel(t) ==
    /\ Alive /\ sp[t] = "cleanup" /\ cStage[t] = "none"
    /\ tmMu = NoOne
    /\ LET c == tCluster[t] IN
       tunnels' = IF tunnels[c] # Nil /\ tId[tunnels[c]] = tId[t]
                    THEN [tunnels EXCEPT ![c] = Nil]
                    ELSE tunnels
    /\ sp' = [sp EXCEPT ![t] = "done"]
    /\ streamDone' = [streamDone EXCEPT ![t] = TRUE]
    /\ UNCHANGED <<agentVars, tmMu, clock, tunVars, crashed, cTarget, cStage, cLeft, wrkVars,
                   cw, reqVars, pcVars, pumpVars>>

\* The agent side of stream t goes away (agent exit, network failure).
StreamFail(t) ==
    /\ Alive /\ sp[t] \in {"serve", "wait", "cleanup"} /\ ~streamDone[t]
    /\ streamDone' = [streamDone EXCEPT ![t] = TRUE]
    /\ UNCHANGED <<agentVars, tmVars, tunVars, crashed, srvVars, wrkVars, cw, reqVars, pcVars,
                   pumpVars>>

\* ---------------------------------------------------- Tunnel.handleIncoming
\* grpcStream.Recv() returns an error.
RecvFail(t) ==
    /\ Alive /\ rd[t] = "run" /\ streamDone[t]
    /\ rd' = [rd EXCEPT ![t] = "exited"]
    /\ UNCHANGED <<agentVars, tmVars, tunVars, streamDone, crashed, srvVars, wr, drained,
                   recvLog, errLog, cw, reqVars, pcVars, pumpVars>>

\* A DRAIN packet: return fmt.Errorf("agent initiated drain").
RecvDrain(t) ==
    /\ Alive /\ rd[t] = "run" /\ ~streamDone[t]
    /\ rd' = [rd EXCEPT ![t] = "exited"]
    /\ drained' = [drained EXCEPT ![t] = TRUE]
    /\ UNCHANGED <<agentVars, tmVars, tunVars, streamDone, crashed, srvVars, wr, recvLog, errLog, cw,
                   reqVars, pcVars, pumpVars>>

\* The non-blocking send both handleDataPacket and safeSendToStream make on
\* pc.incomingChan: nothing when pc.ctx is done or the channel is full.
TrySendIncoming(h, packet) ==
    IF PcCtxDone(h) \/ Len(pcIn[h]) >= IncomingCap
      THEN pcIn[h]
      ELSE Append(pcIn[h], packet)

\* A DATA packet with conn id k: handleDataPacket.
handleDataPacket(t, k) ==
    /\ Alive /\ rd[t] = "run" /\ ~streamDone[t]
    /\ Len(recvLog[t]) < MaxData
    /\ tMu[t] = NoOne
    /\ recvLog' = [recvLog EXCEPT ![t] = Append(@, k)]
    /\ LET packet == DataPacket(k, Payload(k, Len(recvLog[t]) + 1)) IN
       IF Lookup(t, k) # {}
         THEN /\ pcIn' = [h \in Requests |->
                            IF h \in Lookup(t, k) THEN TrySendIncoming(h, packet)
                                                  ELSE pcIn[h]]
              /\ UNCHANGED <<tOut, crashed>>
         ELSE \* select { case t.outgoingChan <- errorPacket: default: }
              /\ IF tOut[t].st = "closed"
                   THEN crashed' = TRUE /\ UNCHANGED tOut
                   ELSE /\ tOut' = [tOut EXCEPT ![t].q =
                                      IF Len(@) < OutgoingCap
                                        THEN Append(@, ErrorPacket(k, MsgUnknownConn))
                                        ELSE @]
                        /\ UNCHANGED crashed
              /\ UNCHANGED pcIn
    /\ UNCHANGED <<agentVars, tmVars, tId, tCluster, tClosed, tInit, tConns, tNext, tMu,
                   streamDone, srvVars, rd, wr, drained, errLog, cw, reqVars, pcId,
                   pcClosed, pcErr, pcCancelled, pcMu, pumpVars>>

\* An ERROR packet with conn id k: handleErrorPacket and safeSendToStream.
handleErrorPacket(t, k) ==
    /\ Alive /\ rd[t] = "run" /\ ~streamDone[t]
    /\ tMu[t] = NoOne
    /\ pcIn' = [h \in Requests |->
                  IF h \in Lookup(t, k)
                    THEN TrySendIncoming(h, ErrorPacket(k, MsgAgent))
                    ELSE pcIn[h]]
    /\ errLog' = [errLog EXCEPT ![t] = IF Lookup(t, k) # {} THEN @ \cup {k} ELSE @]
    /\ UNCHANGED <<agentVars, tmVars, tunVars, streamDone, crashed, srvVars, rd, wr,
                   drained, recvLog, cw, reqVars, pcId, pcClosed, pcErr, pcCancelled,
                   pcMu, pumpVars>>

\* ---------------------------------------------------- Tunnel.handleOutgoing
\* case packet := <-t.outgoingChan: grpcStream.Send(packet)
WriterSend(t) ==
    /\ Alive /\ wr[t] = "run"
    /\ tOut[t].st = "open" /\ tOut[t].q # <<>>
    /\ tOut' = [tOut EXCEPT ![t].q = Tail(@)]
    /\ \/ UNCHANGED wr
       \/ streamDone[t] /\ wr' = [wr EXCEPT ![t] = "exited"]
    /\ UNCHANGED <<agentVars, tmVars, tId, tCluster, tClosed, tInit, tConns, tNext, tMu,
                   streamDone, crashed, srvVars, rd, drained, recvLog, errLog, cw, reqVars,
                   pcVars, pumpVars>>

\* The channel is closed: the receive yields nil (or a packet still buffered)
\* and Send is called with it.  Whether Send(nil) fails is the gRPC library's
\* choice; when it does not, the loop goes on.
WriterClosed(t) ==
    /\ Alive /\ wr[t] = "run"
    /\ tOut[t].st = "closed"
    /\ tOut' = [tOut EXCEPT ![t].q = IF @ = <<>> THEN @ ELSE Tail(@)]
    /\ \/ UNCHANGED wr
       \/ (streamDone[t] \/ tOut[t].q = <<>>) /\ wr' = [wr EXCEPT ![t] = "exited"]
    /\ UNCHANGED <<agentVars, tmVars, tId, tCluster, tClosed, tInit, tConns, tNext, tMu,
                   streamDone, crashed, srvVars, rd, drained, recvLog, errLog, cw, reqVars,
                   pcVars, pumpVars>>

\* case <-t.ctx.Done(): return t.ctx.Err()
WriterCtxDone(t) ==
    /\ Alive /\ wr[t] = "run" /\ streamDone[t]
    /\ wr' = [wr EXCEPT ![t] = "exited"]
    /\ UNCHANGED <<agentVars, tmVars, tunVars, streamDone, crashed, srvVars, rd, drained,
                   recvLog, errLog, cw, reqVars, pcVars, pumpVars>>

\* ------------------------------------------------------ httpHandler.ServeHTTP
\* A handler that answers a parse error like a missing tunnel.
BadRequestUnavailable(h) ==
    /\ Alive /\ hp[h] = "idle"
    /\ ParseClusterName(hUri[h]).err
    /\ status' = [status EXCEPT ![h] = 503]
    /\ hp' = [hp EXCEPT ![h] = "done"]
    /\ UNCHANGED <<agentVars, tmVars, tunVars, streamDone, crashed, srvVars, wrkVars, cw,
                   hTun, hUri, hCtxDone, pcVars, pumpVars>>

\* h.parser.ParseClusterName(r) fails: 400.
BadRequest(h) ==
    /\ Alive /\ hp[h] = "idle"
    /\ ParseClusterName(hUri[h]).err
    /\ status' = [status EXCEPT ![h] = 400]
    /\ hp' = [hp EXCEPT ![h] = "done"]
    /\ UNCHANGED <<agentVars, tmVars, tunVars, streamDone, crashed, srvVars, wrkVars, cw,
                   hTun, hUri, hCtxDone, pcVars, pumpVars>>

\* tm.tunnels[clusterName]: nil when the map has no entry.
TunnelOf(c) == IF c \in DOMAIN tunnels THEN tunnels[c] ELSE Nil

\* The URI parses to c; h.tunnelManager.GetTunnel(c); nil is answered 503.
GetTunnel(h, c) ==
    /\ Alive /\ hp[h] = "idle" /\ tmMu = NoOne
    /\ ParseClusterName(hUri[h]) = [clusterName |-> c, err |-> FALSE]
    /\ hTun' = [hTun EXCEPT ![h] = TunnelOf(c)]
    /\ IF TunnelOf(c) = Nil
         THEN /\ status' = [status EXCEPT ![h] = 503]
              /\ hp' = [hp EXCEPT ![h] = "done"]
              /\ hCtxDone' = [hCtxDone EXCEPT ![h] = TRUE]
         ELSE /\ hp' = [hp EXCEPT ![h] = "newpc"]
              /\ UNCHANGED <<status, hCtxDone>>
    /\ UNCHANGED <<agentVars, tmVars, tunVars, streamDone, crashed, srvVars, wrkVars, cw,
                   hUri, pcVars, pumpVars>>

\* An id taken from the size of the map instead of the counter.
ReusedPacketConnID(t) == Cardinality(tConns[t]) + 1

\* atomic.AddInt64(&t.nextPacketConnID, 1)
NextPacketConnID(t) == tNext[t] + 1

\* Tunnel.NewPacketConn; an error is answered 503.
NewPacketConn(h) ==
    /\ Alive /\ hp[h] = "newpc"
    /\ LET t == hTun[h] IN
       IF ~tInit[t]
         THEN \* "connection not initialized", before t.mu is taken
              /\ status' = [status EXCEPT ![h] = 503]
              /\ hp' = [hp EXCEPT ![h] = "done"]
              /\ hCtxDone' = [hCtxDone EXCEPT ![h] = TRUE]
              /\ UNCHANGED <<tNext, tConns, pcId>>
         ELSE /\ tMu[t] = NoOne
              /\ IF tClosed[t]
                   THEN /\ status' = [status EXCEPT ![h] = 503]
                        /\ hp' = [hp EXCEPT ![h] = "done"]
                        /\ hCtxDone' = [hCtxDone EXCEPT ![h] = TRUE]
                        /\ UNCHANGED <<tNext, tConns, pcId>>
                   ELSE /\ tNext' = [tNext EXCEPT ![t] = NextPacketConnID(t)]
                        /\ pcId' = [pcId EXCEPT ![h] = NextPacketConnID(t)]
                        /\ tConns' = [tConns EXCEPT ![t] = @ \cup {h}]
                        /\ hp' = [hp EXCEPT ![h] = "assert"]
                        /\ UNCHANGED <<status, hCtxDone>>
    /\ UNCHANGED <<agentVars, tmVars, tId, tCluster, tClosed, tInit, tOut, tMu, streamDone,
                   crashed, srvVars, wrkVars, cw, hTun, hUri, pcClosed, pcErr, pcCancelled,
                   pcMu, pcIn, pumpVars>>

\* hijacker, ok := w.(http.Hijacker) with a ResponseWriter that is one
\* (an HTTP/1.x request).
HijackerOk(h) ==
    /\ Alive /\ hp[h] = "assert"
    /\ hp' = [hp EXCEPT ![h] = "sendOpen"]
    /\ UNCHANGED <<agentVars, tmVars, tunVars, streamDone, crashed, srvVars, wrkVars, cw, hTun, hUri,
                   hCtxDone, status, pcVars, pumpVars>>

\* The ResponseWriter is no http.Hijacker (an HTTP/2 request): 500, and the
\* deferred pc.Close(nil) runs.
NoHijacker(h) ==
    /\ Alive /\ hp[h] = "assert"
    /\ status' = [status EXCEPT ![h] = 500]
    /\ hp' = [hp EXCEPT ![h] = "closing"]
    /\ cw' = [cw EXCEPT ![Http(h)] = [pc |-> h, stage |-> "lock", err |-> 0]]
    /\ UNCHANGED <<agentVars, tmVars, tunVars, streamDone, crashed, srvVars, wrkVars, hTun, hUri,
                   hCtxDone, pcVars, pumpVars>>

\* The context.WithTimeout(r.Context(), 30*time.Second) of the request expires.
Timeout(h) ==
    /\ Alive /\ hp[h] \notin {"off", "idle", "done"} /\ ~hCtxDone[h]
    /\ hCtxDone' = [hCtxDone EXCEPT ![h] = TRUE]
    /\ UNCHANGED <<agentVars, tmVars, tunVars, streamDone, crashed, srvVars, wrkVars, cw, hp,
                   hTun, hUri, status, pcVars, pumpVars>>

\* ---------------------------------------------------- packetConnection.Send
\* A sendPacket whose select has no default branch: with a full queue and a
\* live stream the send goes through.
sendPacketNoDefault(t) ==
    IF ~tInit[t] THEN {"notInitialized"}
    ELSE IF tOut[t].st = "nil" THEN {"notReady"}
    ELSE (IF tOut[t].st = "closed" THEN {"panic"} ELSE {"ok"})
         \cup (IF streamDone[t] THEN {"ctxDone"} ELSE {})

\* Tunnel.sendPacket: the results its checks and its select can have.
sendPacket(t) ==
    IF ~tInit[t] THEN {"notInitialized"}
    ELSE IF tOut[t].st = "nil" THEN {"notReady"}
    ELSE LET ready ==
               (IF tOut[t].st = "closed" THEN {"panic"}
                ELSE IF Len(tOut[t].q) < OutgoingCap THEN {"ok"} ELSE {})
               \cup (IF streamDone[t] THEN {"ctxDone"} ELSE {})
         IN IF ready = {} THEN {"full"} ELSE ready

\* The packets the handler sends itself: the empty DATA packet that opens the
\* connection, then the serialized request.
RequestAsInitialPacket(h) == DataPacket(pcId[h], Payload(pcId[h], 0))
InitialPacket(h) == DataPacket(pcId[h], <<>>)
RequestPacket(h) == DataPacket(pcId[h], Payload(pcId[h], 0))

\* pc.mu.Lock(); if pc.closed { return error }, in pc.Send called by ServeHTTP.
\* An error is answered 502 and the deferred pc.Close(nil) runs.
HandlerSendLock(h) ==
    /\ Alive /\ hp[h] \in {"sendOpen", "sendReq"}
    /\ pcMu[h] = NoOne
    /\ IF pcClosed[h]
         THEN /\ status' = [status EXCEPT ![h] = 502]
              /\ hp' = [hp EXCEPT ![h] = "closing"]
              /\ cw' = [cw EXCEPT ![Http(h)] = [pc |-> h, stage |-> "lock", err |-> 0]]
              /\ UNCHANGED pcMu
         ELSE /\ pcMu' = [pcMu EXCEPT ![h] = Http(h)]
              /\ hp' = [hp EXCEPT ![h] = IF hp[h] = "sendOpen" THEN "sendOpenL"
                                                             ELSE "sendReqL"]
              /\ UNCHANGED <<status, cw>>
    /\ UNCHANGED <<agentVars, tmVars, tunVars, streamDone, crashed, srvVars, wrkVars, hTun, hUri,
                   hCtxDone, pcId, pcClosed, pcErr, pcCancelled, pcIn, pumpVars>>

\* packet.ConnId = pc.id; pc.tunnel.sendPacket(packet); pc.mu.Unlock().
\* A panic of the send is recovered by net/http, which runs the deferred calls.
HandlerSend(h) ==
    /\ Alive /\ hp[h] \in {"sendOpenL", "sendReqL"}
    /\ LET t == hTun[h]
           packet == IF hp[h] = "sendOpenL" THEN InitialPacket(h) ELSE RequestPacket(h)
       IN
       /\ tMu[t] = NoOne
       /\ \E res \in sendPacket(t) :
             IF res = "ok"
               THEN /\ tOut' = [tOut EXCEPT ![t].q = Append(@, packet)]
                    /\ hp' = [hp EXCEPT ![h] = IF hp[h] = "sendOpenL" THEN "sendReq"
                                                                    ELSE "hijack"]
                    /\ UNCHANGED <<status, cw>>
               ELSE /\ status' = [status EXCEPT ![h] = IF res = "panic" THEN 0 ELSE 502]
                    /\ hp' = [hp EXCEPT ![h] = "closing"]
                    /\ cw' = [cw EXCEPT ![Http(h)] =
                                 [pc |-> h, stage |-> "lock", err |-> 0]]
                    /\ UNCHANGED tOut
    /\ pcMu' = [pcMu EXCEPT ![h] = NoOne]
    /\ UNCHANGED <<agentVars, tmVars, tId, tCluster, tClosed, tInit, tConns, tNext, tMu,
                   streamDone, crashed, srvVars, wrkVars, hTun, hUri, hCtxDone, pcId,
                   pcClosed, pcErr, pcCancelled, pcIn, pumpVars>>

\* hijacker.Hijack(), then forwardTraffic starts the two pumps.
Hijack(h) ==
    /\ Alive /\ hp[h] = "hijack"
    /\ \/ /\ hp' = [hp EXCEPT ![h] = "forward"]
          /\ clientOpen' = [clientOpen EXCEPT ![h] = TRUE]
          /\ c2a' = [c2a EXCEPT ![h] = "read"]
          /\ a2c' = [a2c EXCEPT ![h] = "recv"]
          /\ UNCHANGED cw
       \/ /\ hp' = [hp EXCEPT ![h] = "closing"]
          /\ cw' = [cw EXCEPT ![Http(h)] = [pc |-> h, stage |-> "lock", err |-> 0]]
          /\ UNCHANGED <<clientOpen, c2a, a2c>>
    /\ UNCHANGED <<agentVars, tmVars, tunVars, streamDone, crashed, srvVars, wrkVars, hTun, hUri,
                   hCtxDone, status, pcVars, chunks, written>>

\* forwardTraffic returns (a pump reported, or ctx is done); the deferred
\* clientConn.Close() runs and the deferred pc.Close(nil) is called.
ForwardReturn(h) ==
    /\ Alive /\ hp[h] = "forward"
    /\ c2a[h] = "exited" \/ a2c[h] = "exited" \/ hCtxDone[h]
    /\ clientOpen' = [clientOpen EXCEPT ![h] = FALSE]
    /\ hp' = [hp EXCEPT ![h] = "closing"]
    /\ cw' = [cw EXCEPT ![Http(h)] = [pc |-> h, stage |-> "lock", err |-> 0]]
    /\ UNCHANGED <<agentVars, tmVars, tunVars, streamDone, crashed, srvVars, wrkVars, hTun, hUri,
                   hCtxDone, status, pcVars, c2a, a2c, chunks, written>>

\* pc.Close(nil) returned; the deferred cancel() runs and ServeHTTP returns.
HandlerReturn(h) ==
    /\ Alive /\ hp[h] = "closing" /\ cw[Http(h)].stage = "none"
    /\ hp' = [hp EXCEPT ![h] = "done"]
    /\ hCtxDone' = [hCtxDone EXCEPT ![h] = TRUE]
    /\ UNCHANGED <<agentVars, tmVars, tunVars, streamDone, crashed, srvVars, wrkVars, cw, hTun, hUri,
                   status, pcVars, pumpVars>>

\* ------------------------------------------------------ forwardClientToAgent
\* The client goes away (or half-closes): reads and writes on the socket fail.
ClientDisconnect(h) ==
    /\ Alive /\ hp[h] = "forward" /\ clientOpen[h]
    /\ clientOpen' = [clientOpen EXCEPT ![h] = FALSE]
    /\ UNCHANGED <<agentVars, tmVars, tunVars, streamDone, crashed, srvVars, wrkVars, cw,
                   reqVars, pcVars, c2a, a2c, chunks, written>>

\* clientConn.Read: a chunk, or an error once the socket is closed.
ClientRead(h) ==
    /\ Alive /\ c2a[h] = "read"
    /\ IF clientOpen[h]
         THEN /\ chunks[h] < MaxChunks
              /\ chunks' = [chunks EXCEPT ![h] = @ + 1]
              /\ c2a' = [c2a EXCEPT ![h] = "send"]
         ELSE /\ c2a' = [c2a EXCEPT ![h] = "exited"]
              /\ UNCHANGED chunks
    /\ UNCHANGED <<agentVars, tmVars, tunVars, streamDone, crashed, srvVars, wrkVars, cw,
                   reqVars, pcVars, a2c, clientOpen, written>>

\* pc.Send of the pump: pc.mu.Lock(); if pc.closed { return error }
PumpSendLock(h) ==
    /\ Alive /\ c2a[h] = "send"
    /\ pcMu[h] = NoOne
    /\ IF pcClosed[h]
         THEN c2a' = [c2a EXCEPT ![h] = "exited"] /\ UNCHANGED pcMu
         ELSE c2a' = [c2a EXCEPT ![h] = "sendL"] /\ pcMu' = [pcMu EXCEPT ![h] = Pump(h)]
    /\ UNCHANGED <<agentVars, tmVars, tunVars, streamDone, crashed, srvVars, wrkVars, cw,
                   reqVars, pcId, pcClosed, pcErr, pcCancelled, pcIn, a2c, chunks,
                   clientOpen, written>>

\* sendPacket of the pump.  A panic is recovered by the goroutine's deferred
\* recover, which reports nothing on errChan.
PumpSend(h) ==
    /\ Alive /\ c2a[h] = "sendL"
    /\ LET t == hTun[h] IN
       /\ tMu[t] = NoOne
       /\ \E res \in sendPacket(t) :
             CASE res = "ok" ->
                    /\ tOut' = [tOut EXCEPT ![t].q =
                                   Append(@, DataPacket(pcId[h], Payload(pcId[h], chunks[h])))]
                    /\ c2a' = [c2a EXCEPT ![h] = "read"]
               [] res = "panic" ->
                    /\ c2a' = [c2a EXCEPT ![h] = "panicked"]
                    /\ UNCHANGED tOut
               [] OTHER ->
                    /\ c2a' = [c2a EXCEPT ![h] = "exited"]
                    /\ UNCHANGED tOut
    /\ pcMu' = [pcMu EXCEPT ![h] = NoOne]
    /\ UNCHANGED <<agentVars, tmVars, tId, tCluster, tClosed, tInit, tConns, tNext, tMu,
                   streamDone, crashed, srvVars, wrkVars, cw, reqVars, pcId, pcClosed,
                   pcErr, pcCancelled, pcIn, a2c, chunks, clientOpen, written>>

\* ------------------------------------------------------ forwardAgentToClient
\* packet := <-pc.Recv(): an ERROR is answered 502 Bad Gateway and ends the
\* pump; the payload of a DATA packet is written to the client.
forwardAgentToClient(h) ==
    /\ Alive /\ a2c[h] = "recv" /\ pcIn[h] # <<>>
    /\ LET packet == Head(pcIn[h]) IN
       /\ pcIn' = [pcIn EXCEPT ![h] = Tail(@)]
       /\ IF packet.Code = "ERROR"
            THEN /\ written' = [written EXCEPT ![h] =
                                   IF clientOpen[h]
                                     THEN Append(@, BadGateway(packet.ErrorMessage))
                                     ELSE @]
                 /\ a2c' = [a2c EXCEPT ![h] = "exited"]
            ELSE IF Len(packet.Data) > 0
                   THEN IF clientOpen[h]
                          THEN /\ written' = [written EXCEPT ![h] = Append(@, packet.Data)]
                               /\ UNCHANGED a2c
                          ELSE /\ a2c' = [a2c EXCEPT ![h] = "exited"]
                               /\ UNCHANGED written
                   ELSE UNCHANGED <<written, a2c>>
    /\ UNCHANGED <<agentVars, tmVars, tunVars, streamDone, crashed, srvVars, wrkVars, cw,
                   reqVars, pcId, pcClosed, pcErr, pcCancelled, pcMu, c2a, chunks,
                   clientOpen>>

\* ==================================================================== Agent
Packets == 1..MaxAgentPackets   \* the i-th packet, its goroutine, the packetConn
                                \* that goroutine creates
AgentConnIds == 1..2            \* conn ids the Hub puts in the packets

\* Run() at its start: the main loop is about to make its first attempt.
RunStarts ==
    /\ aServing = FALSE
    /\ aCtxDone = FALSE
    /\ ap = "loop"
    /\ aStream = 0
    /\ aConns = {}
    /\ egress = {}
    /\ aRecv = "off"
    /\ drain = "off"
    /\ px = "run"
    /\ aRun = "run"

\* Run() while serve() runs on the first stream.
RunServes ==
    /\ aServing = TRUE
    /\ aCtxDone = FALSE
    /\ ap = "serve"
    /\ aStream = 1
    /\ aConns = {1}
    /\ egress = {1}
    /\ aRecv = "run"
    /\ drain = "wait"
    /\ px = "run"
    /\ aRun = "run"

\* The Agent after New(): an empty connection manager, no stream yet.
AgentIdle ==
    /\ RunStarts
    /\ aLog = <<>>
    /\ rcvOn = [i \in Packets |-> 0]
    /\ gp = [i \in Packets |-> "none"]
    /\ glc = [i \in Packets |-> 0]
    /\ conns = [k \in AgentConnIds |-> 0]
    /\ lcId = [i \in Packets |-> 0]
    /\ lcIn = [i \in Packets |-> <<>>]
    /\ lcClosed = [i \in Packets |-> FALSE]
    /\ lcOut = [i \in Packets |-> <<>>]
    /\ pw = [i \in Packets |-> "off"]
    /\ lr = [i \in Packets |-> "off"]
    /\ aOut = <<>>
    /\ aSent = <<>>
    /\ inSend = {}
    /\ pCtxDone = FALSE
    /\ aOutClosed = FALSE
    /\ aPanic = FALSE

\* The Agent while serve() runs, after the Hub's opening packet of conn id 1
\* (empty DATA) has been dispatched: the connection is dialed and stored, its
\* two goroutines run and the opening packet is consumed.
AgentServing ==
    /\ RunServes
    /\ aLog = <<DataPacket(1, <<>>)>>
    /\ rcvOn = [i \in Packets |-> IF i = 1 THEN 1 ELSE 0]
    /\ gp = [i \in Packets |-> IF i = 1 THEN "done" ELSE "none"]
    /\ glc = [i \in Packets |-> 0]
    /\ conns = [k \in AgentConnIds |-> IF k = 1 THEN 1 ELSE 0]
    /\ lcId = [i \in Packets |-> IF i = 1 THEN 1 ELSE 0]
    /\ lcIn = [i \in Packets |-> <<>>]
    /\ lcClosed = [i \in Packets |-> FALSE]
    /\ lcOut = [i \in Packets |-> <<>>]
    /\ pw = [i \in Packets |-> IF i = 1 THEN "run" ELSE "off"]
    /\ lr = [i \in Packets |-> IF i = 1 THEN "run" ELSE "off"]
    /\ aOut = <<>>
    /\ aSent = <<>>
    /\ inSend = {}
    /\ pCtxDone = FALSE
    /\ aOutClosed = FALSE
    /\ aPanic = FALSE

\* Agent.processIncoming: grpcStream.Recv() returns a packet and the loop
\* starts a goroutine for it: go func() { c.lcm.Dispatch(packet) ... }().
\* A DATA packet is empty (the one that opens a connection) or carries bytes.
processIncoming(packet) ==
    /\ aServing /\ Len(aLog) < MaxAgentPackets
    /\ aLog' = Append(aLog, packet)
    /\ rcvOn' = [rcvOn EXCEPT ![Len(aLog) + 1] = aStream]
    /\ gp' = [gp EXCEPT ![Len(aLog) + 1] = "dispatch"]
    /\ UNCHANGED <<hubVars, runVars, glc, conns, lcId, lcIn, lcClosed, lcOut, pw, lr,
                   aOut, aSent, inSend, mgrVars>>

\* removeConnection(connID): under connLock, cancel, close the conn and the
\* incoming channel of the packetConn the map holds for connID, delete the entry.
removeConnection(k) ==
    /\ lcClosed' = IF conns[k] # 0 THEN [lcClosed EXCEPT ![conns[k]] = TRUE]
                                   ELSE lcClosed
    /\ conns' = [conns EXCEPT ![k] = 0]

\* The switch of Dispatch: the cases it has, and a switch whose last case
\* takes every other code.
AnyCodeKnown(packet) == TRUE
KnownCode(packet) == packet.Code \in {"DATA", "ERROR"}

\* Dispatch in the goroutine of packet i.  DATA: handleDataPacket looks the
\* conn id up under connLock.RLock and releases the lock.  ERROR:
\* handleErrorPacket calls removeConnection.  Any other code: the error
\* "unknown control code" is returned.
Dispatch(i) ==
    /\ gp[i] = "dispatch"
    /\ LET packet == aLog[i]
           k == packet.ConnId IN
       IF ~KnownCode(packet)
         THEN /\ gp' = [gp EXCEPT ![i] = "report"]
              /\ UNCHANGED <<glc, conns, lcClosed>>
       ELSE IF packet.Code = "DATA"
         THEN /\ glc' = [glc EXCEPT ![i] = conns[k]]
              /\ gp' = [gp EXCEPT ![i] = IF conns[k] # 0 THEN "send" ELSE "create"]
              /\ UNCHANGED <<conns, lcClosed>>
         ELSE /\ removeConnection(k)
              /\ gp' = [gp EXCEPT ![i] = "done"]
              /\ UNCHANGED glc
    /\ UNCHANGED <<hubVars, runVars, aLog, rcvOn, lcId, lcIn, lcOut, pw, lr, aOut, aSent, inSend, mgrVars>>

\* createConnection: dial the target.  On failure an ERROR packet goes to
\* p.outgoing unless it is full, and the error is returned; when p.outgoing is
\* closed the select takes the send, which panics, or the p.ctx.Done() case.  On success the
\* packetConn is made with the packet in its incoming channel, stored in the
\* map (over any entry the map has by now) and its two goroutines are started.
createConnection(i) ==
    /\ gp[i] = "create"
    /\ LET packet == aLog[i]
           k == packet.ConnId IN
       \/ /\ aOut' = IF Len(aOut) < AgentOutgoingCap /\ ~aOutClosed
                        THEN Append(aOut, ErrorPacket(k, MsgAgent))
                        ELSE aOut
          /\ aPanic' \in (IF aOutClosed THEN {TRUE, aPanic} ELSE {aPanic})
          /\ gp' = [gp EXCEPT ![i] = "report"]
          /\ UNCHANGED <<conns, lcId, lcIn, pw, lr>>
       \/ /\ lcId' = [lcId EXCEPT ![i] = k]
          /\ lcIn' = [lcIn EXCEPT ![i] = <<packet>>]
          /\ conns' = [conns EXCEPT ![k] = i]
          /\ pw' = [pw EXCEPT ![i] = "run"]
          /\ lr' = [lr EXCEPT ![i] = "run"]
          /\ gp' = [gp EXCEPT ![i] = "done"]
          /\ UNCHANGED <<aOut, aPanic>>
    /\ UNCHANGED <<hubVars, runVars, aLog, rcvOn, glc, lcClosed, lcOut, aSent, inSend, pCtxDone, aOutClosed>>

\* safeSendToConnection: the send on lc.incoming.  On a closed channel the
\* select takes the send, which panics, is recovered and returns nil, or the
\* ctx case, which returns an error; the packet is gone.  On a full channel
\* the second select waits, and returns an error after 100 ms.
safeSendToConnection(i) ==
    /\ gp[i] = "send"
    /\ LET lc == glc[i] IN
       IF lcClosed[lc]
         THEN /\ \E next \in {"done", "report"} : gp' = [gp EXCEPT ![i] = next]
              /\ UNCHANGED lcIn
         ELSE IF Len(lcIn[lc]) < AgentIncomingCap
                THEN /\ lcIn' = [lcIn EXCEPT ![lc] = Append(@, aLog[i])]
                     /\ gp' = [gp EXCEPT ![i] = "done"]
                ELSE /\ gp' = [gp EXCEPT ![i] = "report"]
                     /\ UNCHANGED lcIn
    /\ UNCHANGED <<hubVars, runVars, aLog, rcvOn, glc, conns, lcId, lcClosed, lcOut, pw, lr,
                   aOut, aSent, inSend, mgrVars>>

\* The goroutines of the Agent that call grpcStream.Send: processOutgoing, the
\* Dispatch goroutine of packet i, and the goroutine goroutine 3 of serve starts.
Egress == <<"egress", 0>>
Dispatcher(i) == <<"dispatch", i>>
DrainSender == <<"drain", 0>>
Senders == {Egress, DrainSender} \cup {Dispatcher(i) : i \in Packets}

\* An ERROR packet that names no connection.
ControlErrorPacket(packet) == ErrorPacket(0, MsgDispatch)

\* errorPacket := &v1.Packet{ConnId: packet.ConnId, Code: ERROR, ErrorMessage: err.Error()}
DispatchErrorPacket(packet) == ErrorPacket(packet.ConnId, MsgDispatch)

\* Dispatch returned an error: the goroutine of packet i sends an ERROR packet
\* for the packet's conn id on the stream itself.
DispatchError(i) ==
    /\ gp[i] = "report"
    /\ aSent' = IF aServing THEN Append(aSent, DispatchErrorPacket(aLog[i])) ELSE aSent
    /\ inSend' = IF aServing THEN inSend \cup {Dispatcher(i)} ELSE inSend
    /\ gp' = [gp EXCEPT ![i] = "done"]
    /\ UNCHANGED <<hubVars, runVars, aLog, rcvOn, glc, conns, lcId, lcIn, lcClosed, lcOut,
                   pw, lr, aOut, mgrVars>>

\* processIncomingPackets(lc): take a packet from lc.incoming and write its
\* bytes to lc.conn; a failed write calls removeConnection(lc.id) and ends the
\* goroutine, as do a closed channel and a done context.
processIncomingPackets(lc) ==
    /\ pw[lc] = "run"
    /\ \/ \* <-lc.ctx.Done(), or the channel is closed and empty
          /\ lcClosed[lc]
          /\ pw' = [pw EXCEPT ![lc] = "exited"]
          /\ UNCHANGED <<lcIn, lcOut, conns, lcClosed>>
       \/ \* an empty packet: nothing to write
          /\ lcIn[lc] # <<>> /\ Len(Head(lcIn[lc]).Data) = 0
          /\ lcIn' = [lcIn EXCEPT ![lc] = Tail(@)]
          /\ UNCHANGED <<pw, lcOut, conns, lcClosed>>
       \/ \* lc.conn.Write succeeds
          /\ lcIn[lc] # <<>> /\ Len(Head(lcIn[lc]).Data) > 0 /\ ~lcClosed[lc]
          /\ lcIn' = [lcIn EXCEPT ![lc] = Tail(@)]
          /\ lcOut' = [lcOut EXCEPT ![lc] = Append(@, Head(lcIn[lc]).Data)]
          /\ UNCHANGED <<pw, conns, lcClosed>>
       \/ \* lc.conn.Write fails: the conn is closed, or the target is gone
          /\ lcIn[lc] # <<>> /\ Len(Head(lcIn[lc]).Data) > 0
          /\ lcIn' = [lcIn EXCEPT ![lc] = Tail(@)]
          /\ removeConnection(lcId[lc])
          /\ pw' = [pw EXCEPT ![lc] = "exited"]
          /\ UNCHANGED lcOut
    /\ UNCHANGED <<hubVars, runVars, aLog, rcvOn, gp, glc, lcId, lr, aOut, aSent, inSend, mgrVars>>

\* readFromConnection(lc) returns: Read failed (the target closed the
\* connection) or lc.ctx is done; the deferred removeConnection(lc.id) runs.
\* Until then the target writes nothing.
readFromConnection(lc) ==
    /\ lr[lc] = "run"
    /\ lr' = [lr EXCEPT ![lc] = "exited"]
    /\ removeConnection(lcId[lc])
    /\ UNCHANGED <<hubVars, runVars, aLog, rcvOn, gp, glc, lcId, lcIn, lcOut, pw, aOut, aSent, inSend, mgrVars>>

\* readFromConnection(lc): lc.conn.Read returns bytes of the target.
readData(lc) ==
    /\ lr[lc] = "run" /\ ~lcClosed[lc]
    /\ lr' = [lr EXCEPT ![lc] = "send"]
    /\ UNCHANGED <<hubVars, runVars, aLog, rcvOn, gp, glc, conns, lcId, lcIn, lcClosed, lcOut,
                   pw, aOut, aSent, inSend, mgrVars>>

\* readFromConnection(lc): the select that sends the DATA packet to
\* lc.outgoing, which is p.outgoing.  The send goes through when the queue has
\* room and panics when the queue is closed; a done lc.ctx or p.ctx makes the
\* goroutine return.  The deferred removeConnection(lc.id) runs whenever the
\* goroutine ends.
readerSend(lc) ==
    /\ lr[lc] = "send"
    /\ \/ /\ ~aOutClosed /\ Len(aOut) < AgentOutgoingCap
          /\ aOut' = Append(aOut, DataPacket(lcId[lc], Payload(lcId[lc], Len(aOut) + 1)))
          /\ lr' = [lr EXCEPT ![lc] = "run"]
          /\ UNCHANGED <<conns, lcClosed, aPanic>>
       \/ /\ aOutClosed
          /\ aPanic' = TRUE
          /\ lr' = [lr EXCEPT ![lc] = "exited"]
          /\ removeConnection(lcId[lc])
          /\ UNCHANGED aOut
       \/ /\ lcClosed[lc] \/ pCtxDone
          /\ lr' = [lr EXCEPT ![lc] = "exited"]
          /\ removeConnection(lcId[lc])
          /\ UNCHANGED <<aOut, aPanic>>
    /\ UNCHANGED <<hubVars, runVars, aLog, rcvOn, gp, glc, lcId, lcIn, lcOut, pw, aSent, inSend,
                   pCtxDone, aOutClosed>>

\* packetConnManagerImpl.Close, up to connLock.Unlock(): p.cancel(), then for
\* every entry of the map conn.cancel() and conn.conn.Close(), then a new map.
ManagerClose ==
    /\ ~pCtxDone
    /\ pCtxDone' = TRUE
    /\ lcClosed' = [i \in Packets |->
                       lcClosed[i] \/ \E k \in AgentConnIds : conns[k] = i]
    /\ conns' = [k \in AgentConnIds |-> 0]
    /\ UNCHANGED <<hubVars, runVars, aLog, rcvOn, gp, glc, lcId, lcIn, lcOut, pw, lr, aOut,
                   aSent, inSend, aOutClosed, aPanic>>

\* packetConnManagerImpl.Close: close(p.outgoing).
ManagerCloseOutgoing ==
    /\ pCtxDone /\ ~aOutClosed
    /\ aOutClosed' = TRUE
    /\ UNCHANGED <<hubVars, runVars, connVars, aSent, inSend, pCtxDone, aPanic>>

\* Agent.processOutgoing: grpcStream.Send of the next packet of p.outgoing.
processOutgoing ==
    /\ aServing /\ aStream \in egress /\ aOut # <<>> /\ Egress \notin inSend
    /\ aOut' = Tail(aOut)
    /\ aSent' = Append(aSent, Head(aOut))
    /\ inSend' = inSend \cup {Egress}
    /\ UNCHANGED <<hubVars, runVars, aLog, rcvOn, gp, glc, conns, lcId, lcIn, lcClosed,
                   lcOut, pw, lr, mgrVars>>

\* processOutgoing of session t, whose connection is closed: the range takes
\* the next packet of p.outgoing, grpcStream.Send fails and the goroutine
\* returns the error.
processOutgoingFails(t) ==
    /\ t \in egress /\ t \notin aConns /\ aOut # <<>>
    /\ aOut' = Tail(aOut)
    /\ egress' = egress \ {t}
    /\ UNCHANGED <<hubVars, aServing, aCtxDone, ap, aStream, aConns, aRecv, drain, px,
                   aRun, aLog, rcvOn, gp, glc, conns, lcId, lcIn, lcClosed, lcOut, pw, lr,
                   aSent, inSend, mgrVars>>

\* grpcStream.Send returns in goroutine w.  The Send goroutine 3 of serve
\* waits for is taken by its select unless the 100 ms passed first.
SendReturns(w) ==
    /\ w \in inSend
    /\ w = DrainSender => drain = "timeout"
    /\ inSend' = inSend \ {w}
    /\ UNCHANGED <<hubVars, runVars, connVars, aSent, mgrVars>>

\* The gRPC stream from the Hub to the Agent: handleOutgoing of Tunnel t sends
\* the next packet of t.outgoingChan with grpcStream.Send, and grpcStream.Recv
\* in the Agent's processIncoming returns it and starts its goroutine.
StreamDelivers(t) ==
    /\ Alive /\ wr[t] = "run" /\ ~streamDone[t]
    /\ tOut[t].st = "open" /\ tOut[t].q # <<>>
    /\ aServing /\ aStream = t /\ Len(aLog) < MaxAgentPackets
    /\ tOut' = [tOut EXCEPT ![t].q = Tail(@)]
    /\ aLog' = Append(aLog, Head(tOut[t].q))
    /\ rcvOn' = [rcvOn EXCEPT ![Len(aLog) + 1] = aStream]
    /\ gp' = [gp EXCEPT ![Len(aLog) + 1] = "dispatch"]
    /\ UNCHANGED <<tmVars, tId, tCluster, tClosed, tInit, tConns, tNext, tMu,
                   streamDone, crashed, srvVars, wrkVars, cw, reqVars, pcVars, pumpVars,
                   runVars, glc, conns, lcId, lcIn, lcClosed, lcOut, pw, lr, aOut, aSent,
                   inSend, mgrVars>>

\* -------------------------------------------------------------- Agent.Run
\* The packet goroutine 3 of serve sends: ConnId 0, Code DRAIN.
DrainPacket == Packet(0, "DRAIN", <<>>, 0)

\* The caller cancels the ctx it gave to Run.
CancelCtx ==
    /\ ~aCtxDone /\ aRun = "run"
    /\ aCtxDone' = TRUE
    /\ UNCHANGED <<hubVars, aServing, ap, aStream, aConns, egress, aRecv, drain, px, aRun,
                   connVars, aSent, inSend, mgrVars>>

\* The main loop finds ctx.Done() ready at the top of its for: it returns.
LoopCtxDone ==
    /\ ap = "loop" /\ aCtxDone
    /\ ap' = "returned"
    /\ UNCHANGED <<hubVars, aServing, aCtxDone, aStream, aConns, egress, aRecv, drain, px,
                   aRun, connVars, aSent, inSend, mgrVars>>

\* establishAndServe: grpc.NewClient and tunnelClient.Tunnel(grpcStreamCtx)
\* succeed, which starts Server.Tunnel for stream t on the Hub, and serve()
\* starts its three goroutines.  The stream's context is derived from ctx.
establishAndServe(t) ==
    /\ Alive /\ ap = "loop" /\ ~aCtxDone
    /\ t = aStream + 1 /\ t <= MaxSessions /\ sp[t] = "off"
    /\ sp' = [sp EXCEPT ![t] = "idle"]
    /\ aStream' = t
    /\ aConns' = aConns \cup {t}
    /\ egress' = egress \cup {t}
    /\ aServing' = TRUE
    /\ aRecv' = "run"
    /\ drain' = "wait"
    /\ ap' = "serve"
    /\ UNCHANGED <<tmVars, tunVars, streamDone, crashed, cTarget, cStage, cLeft, wrkVars,
                   cw, reqVars, pcVars, pumpVars, aCtxDone, px, aRun, connVars, aSent, inSend, mgrVars>>

\* establishAndServe returns an error before serve(): the Hub cannot be
\* reached.  The loop logs "Session failed, retrying" and starts the timer.
establishFails ==
    /\ ap = "loop" /\ ~aCtxDone
    /\ ap' = "backoff"
    /\ UNCHANGED <<hubVars, aServing, aCtxDone, aStream, aConns, egress, aRecv, drain, px,
                   aRun, connVars, aSent, inSend, mgrVars>>

\* Goroutine 1 of serve: grpcStream.Recv() fails, because the stream ended or
\* because the context the stream was created with is cancelled, and
\* processIncoming returns the error to errCh.
processIncomingReturns ==
    /\ aRecv = "run"
    /\ aCtxDone \/ ~aConnOpen \/ streamDone[aStream]
    /\ aRecv' = "exited"
    /\ UNCHANGED <<hubVars, aServing, aCtxDone, ap, aStream, aConns, egress, drain, px, aRun,
                   connVars, aSent, inSend, mgrVars>>

\* Goroutine 3 of serve passes <-ctx.Done() and starts the goroutine that
\* calls stream.Send(drainPacket).
drainStarts ==
    /\ drain = "wait" /\ aCtxDone
    /\ drain' = "sending"
    /\ inSend' = inSend \cup {DrainSender}
    /\ UNCHANGED <<hubVars, aServing, aCtxDone, ap, aStream, aConns, egress, aRecv, px, aRun,
                   connVars, aSent, mgrVars>>

\* The select of goroutine 3: Send returned nil, Send returned an error (the
\* stream is cancelled or its connection closed), or 100 ms passed.  Then
\* errCh <- ctx.Err().
drainSelect(outcome) ==
    /\ drain = "sending"
    /\ outcome = "sent" => aConnOpen
    /\ drain' = outcome
    /\ aSent' = IF outcome = "sent" THEN Append(aSent, DrainPacket) ELSE aSent
    /\ inSend' = IF outcome = "timeout" THEN inSend ELSE inSend \ {DrainSender}
    /\ UNCHANGED <<hubVars, aServing, aCtxDone, ap, aStream, aConns, egress, aRecv, px, aRun,
                   connVars, mgrVars>>

\* conn.Close() of session t, and a return that leaves the connection open.
LeakConn(open, t) == open
CloseConn(open, t) == open \ {t}

\* The values goroutine 3 has put in errCh.
DrainReported == drain \in {"sent", "failed", "timeout"}

\* serve() takes the first value of errCh and returns it; establishAndServe
\* returns and its deferred conn.Close() tears the connection down, which ends
\* the stream at the Hub; the loop returns if ctx.Err() != nil and starts the
\* backoff timer otherwise.
serveReturns ==
    /\ ap = "serve"
    /\ aRecv = "exited" \/ DrainReported
    /\ aServing' = FALSE
    /\ aConns' = CloseConn(aConns, aStream)
    /\ UNCHANGED egress
    /\ streamDone' = [streamDone EXCEPT ![aStream] = TRUE]
    /\ ap' = IF aCtxDone THEN "returned" ELSE "backoff"
    /\ UNCHANGED <<tmVars, tunVars, crashed, srvVars, wrkVars, cw, reqVars, pcVars,
                   pumpVars, aCtxDone, aStream, aRecv, drain, px, aRun, connVars, aSent, inSend, mgrVars>>

\* The select after the session: timer.C fires after b.NextBackOff().
backoffFires ==
    /\ ap = "backoff"
    /\ ap' = "loop"
    /\ UNCHANGED <<hubVars, aServing, aCtxDone, aStream, aConns, egress, aRecv, drain, px,
                   aRun, connVars, aSent, inSend, mgrVars>>

\* The select after the session: ctx.Done() is ready.
backoffCtxDone ==
    /\ ap = "backoff" /\ aCtxDone
    /\ ap' = "returned"
    /\ UNCHANGED <<hubVars, aServing, aCtxDone, aStream, aConns, egress, aRecv, drain, px,
                   aRun, connVars, aSent, inSend, mgrVars>>

\* c.proxy.Run(ctx): ctx.Done() is ready, the server shuts down and Run
\* returns ctx.Err() to serviceProxyErrCh.
proxyRun ==
    /\ px = "run" /\ aCtxDone
    /\ px' = "returned"
    /\ UNCHANGED <<hubVars, aServing, aCtxDone, ap, aStream, aConns, egress, aRecv, drain,
                   aRun, connVars, aSent, inSend, mgrVars>>

\* The last select of Run: a value in serviceProxyErrCh or in agentErrCh.
Run ==
    /\ aRun = "run"
    /\ px = "returned" \/ ap = "returned"
    /\ aRun' = "returned"
    /\ UNCHANGED <<hubVars, aServing, aCtxDone, ap, aStream, aConns, egress, aRecv, drain, px,
                   connVars, aSent, inSend, mgrVars>>


\* ------------------------------------------------------------ specification
\* Steps of the goroutines serving a stream.
StreamNext ==
    \/ \E t \in Tunnels, c \in Clusters : NewTunnel(t, c)
    \/ \E t \in Tunnels : NewTunnelStore(t)
    \/ \E t \in Tunnels : CloseLock(t)
    \/ \E t \in Tunnels : CloseFinish(t)
    \/ \E t \in Tunnels : Serve(t)
    \/ \E t \in Tunnels : ServeCleanup(t)
    \/ \E t \in Tunnels : RemoveTunnel(t)
    \/ \E t \in Tunnels : RecvFail(t)
    \/ \E t \in Tunnels : WriterClosed(t)
    \/ \E t \in Tunnels : WriterCtxDone(t)

\* Steps every HTTP request takes: it registers a packet connection and closes
\* it; and the steps of Tunnel.Close on a packet connection.
PcNext ==
    \/ \E h \in Requests, c \in ClusterNames : GetTunnel(h, c)
    \/ \E h \in Requests : NewPacketConn(h)
    \/ \E h \in Requests : NoHijacker(h)
    \/ \E h \in Requests : HandlerReturn(h)
    \/ \E x \in Threads : closeWithError(x)
    \/ \E x \in Threads : removePacketConn(x)
    \/ \E t \in Tunnels, h \in Requests : CloseRange(t, h)

\* Steps of a request whose connection can be hijacked, and of its pumps.
ForwardNext ==
    \/ \E h \in Requests : HijackerOk(h)
    \/ \E h \in Requests : HandlerSendLock(h)
    \/ \E h \in Requests : HandlerSend(h)
    \/ \E h \in Requests : Hijack(h)
    \/ \E h \in Requests : ForwardReturn(h)
    \/ \E h \in Requests : ClientRead(h)
    \/ \E h \in Requests : PumpSendLock(h)
    \/ \E h \in Requests : PumpSend(h)
    \/ \E h \in Requests : forwardAgentToClient(h)
    \/ \E t \in Tunnels : WriterSend(t)

\* What the agents, the clients and the clock do.
EnvNext ==
    \/ \E t \in Tunnels : StreamFail(t)
    \/ \E t \in Tunnels : RecvDrain(t)
    \/ \E t \in Tunnels, k \in ConnIds : handleErrorPacket(t, k)
    \/ \E h \in Requests : ClientDisconnect(h)
    \/ \E h \in Requests : Timeout(h)

\* The Go scheduler runs every goroutine that can take a step; the agents, the
\* clients and the network owe nothing.  The 30 s timer of a request fires.
SrvStep(t) ==
    \/ \E c \in Clusters : NewTunnel(t, c)
    \/ NewTunnelStore(t) \/ CloseLock(t) \/ CloseFinish(t)
    \/ \E h \in Requests : CloseRange(t, h)
    \/ closeWithError(Srv(t)) \/ removePacketConn(Srv(t))
    \/ Serve(t) \/ ServeCleanup(t) \/ RemoveTunnel(t)
ReaderStep(t) == RecvFail(t)
WriterStep(t) == WriterSend(t) \/ WriterClosed(t) \/ WriterCtxDone(t)
PcStep(h) ==
    \/ \E c \in ClusterNames : GetTunnel(h, c)
    \/ NewPacketConn(h) \/ NoHijacker(h) \/ HandlerReturn(h)
    \/ closeWithError(Http(h)) \/ removePacketConn(Http(h))
HandlerStep(h) ==
    \/ PcStep(h)
    \/ HijackerOk(h) \/ HandlerSendLock(h) \/ HandlerSend(h) \/ Hijack(h)
    \/ ForwardReturn(h) \/ Timeout(h)
ClientToAgentStep(h) ==
    \/ ~clientOpen[h] /\ ClientRead(h)
    \/ PumpSendLock(h) \/ PumpSend(h)
AgentToClientStep(h) == forwardAgentToClient(h)
StreamFairness ==
    \A t \in Tunnels :
        WF_vars(SrvStep(t)) /\ WF_vars(ReaderStep(t)) /\ WF_vars(WriterStep(t))

\* One agent stream and one client request, with everything the agent and the
\* client can do to them.
Init == HubInit({1}, {1}) /\ AgentIdle
Next == StreamNext \/ PcNext \/ ForwardNext \/ EnvNext
Spec == Init /\ [][Next]_vars
FairSpec ==
    /\ Spec
    /\ StreamFairness
    /\ \A h \in Requests :
          /\ WF_vars(HandlerStep(h)) /\ WF_vars(ClientToAgentStep(h))
          /\ WF_vars(AgentToClientStep(h))

\* An agent that reconnects: two streams of one cluster, and one HTTP/2 client
\* request.  The streams end when the Hub ends them or the agent drops them.
ReplaceInit == HubInit({1, 2}, {1}) /\ AgentIdle
ReplaceNext == StreamNext \/ PcNext \/ \E t \in Tunnels : StreamFail(t)
ReplaceSpec == ReplaceInit /\ [][ReplaceNext]_vars
FairReplaceSpec ==
    ReplaceSpec /\ StreamFairness /\ \A h \in Requests : WF_vars(PcStep(h))

\* Three streams of one cluster and no request: the registry alone.
RegistryInit == HubInit({1, 2, 3}, {}) /\ AgentIdle
RegistryNext == StreamNext \/ \E t \in Tunnels : StreamFail(t)
RegistrySpec == RegistryInit /\ [][RegistryNext]_vars
FairRegistrySpec == RegistrySpec /\ StreamFairness

\* Two streams of one cluster, the second replacing the first, while the
\* agents send DATA packets on them; no request is registered.
LateDataInit == HubInit({1, 2}, {}) /\ AgentIdle
LateDataNext ==
    \/ RegistryNext
    \/ \E t \in Tunnels, k \in ConnIds : handleDataPacket(t, k)
LateDataSpec == LateDataInit /\ [][LateDataNext]_vars

\* One stream and two HTTP/2 client requests, with any request URI: the
\* packet connections of one Tunnel, registered and closed.
ConnInit == HubRequests({1}, {1, 2}, RequestURIs) /\ AgentIdle
ConnNext ==
    \/ StreamNext
    \/ PcNext
    \/ \E h \in Requests : BadRequest(h)
    \/ \E t \in Tunnels : StreamFail(t)
ConnSpec == ConnInit /\ [][ConnNext]_vars
FairConnSpec ==
    /\ ConnSpec
    /\ StreamFairness
    /\ \A h \in Requests : WF_vars(PcStep(h) \/ BadRequest(h))

\* An agent that reconnects, with the Hub it connects to: the sessions of one
\* agent, one after the other, and one HTTP/2 client request.  The network
\* may drop a stream; nobody cancels ctx.
ReconnectInit == HubInit({}, {1}) /\ AgentIdle
SessionNext ==
    \/ \E t \in Tunnels : establishAndServe(t)
    \/ establishFails
    \/ processIncomingReturns
    \/ serveReturns
    \/ backoffFires
ReconnectNext ==
    \/ StreamNext
    \/ PcNext
    \/ \E t \in Tunnels : StreamFail(t)
    \/ SessionNext
ReconnectSpec == ReconnectInit /\ [][ReconnectNext]_vars
\* The scheduler runs the goroutines of Run; the timer fires; the Hub can be
\* reached, so an agent that keeps trying gets its stream.
LoopStep == LoopCtxDone \/ serveReturns \/ backoffFires \/ backoffCtxDone
SessionFairness ==
    /\ WF_vars(LoopStep) /\ WF_vars(processIncomingReturns)
    /\ SF_vars(\E t \in Tunnels : establishAndServe(t))
FairReconnectSpec ==
    /\ ReconnectSpec
    /\ StreamFairness
    /\ \A h \in Requests : WF_vars(PcStep(h))
    /\ SessionFairness

\* An agent whose caller cancels ctx, with the streams of its sessions on the
\* Hub and no client request.
ShutdownInit == HubInit({}, {}) /\ AgentIdle
ShutdownNext ==
    \/ StreamNext
    \/ \E t \in Tunnels : StreamFail(t)
    \/ SessionNext
    \/ CancelCtx
    \/ LoopCtxDone
    \/ drainStarts
    \/ \E outcome \in {"sent", "failed", "timeout"} : drainSelect(outcome)
    \/ backoffCtxDone
    \/ proxyRun
    \/ Run
    \/ \E w \in Senders : SendReturns(w)
ShutdownSpec == ShutdownInit /\ [][ShutdownNext]_vars

\* The data path.  Either the Hub runs, with two requests forwarding on one
\* Tunnel and an agent that sends DATA packets, or the Agent runs, with a Hub
\* that sends it packets.
DataInit ==
    \/ HubForwarding(1, {1, 2}) /\ AgentIdle
    \/ HubInit({}, {}) /\ AgentServing
HubDataNext ==
    \/ \E t \in Tunnels, k \in ConnIds : handleDataPacket(t, k)
    \/ \E h \in Requests : forwardAgentToClient(h)
    \/ \E t \in Tunnels : WriterSend(t)
    \/ \E h \in Requests : ClientDisconnect(h)
    \/ \E h \in Requests : ClientRead(h)
    \/ \E h \in Requests : ForwardReturn(h)
    \/ \E h \in Requests : closeWithError(Http(h))
    \/ \E h \in Requests : removePacketConn(Http(h))
    \/ \E h \in Requests : HandlerReturn(h)
AgentNext ==
    \/ \E k \in AgentConnIds :
          processIncoming(DataPacket(k, Payload(k, Len(aLog) + 1)))
    \/ \E k \in AgentConnIds : processIncoming(DataPacket(k, <<>>))
    \/ \E k \in AgentConnIds : processIncoming(ErrorPacket(k, MsgUnknownConn))
    \/ \E i \in Packets : Dispatch(i)
    \/ \E i \in Packets : createConnection(i)
    \/ \E i \in Packets : safeSendToConnection(i)
    \/ \E i \in Packets : DispatchError(i)
    \/ \E lc \in Packets : processIncomingPackets(lc)
    \/ \E lc \in Packets : readFromConnection(lc)
    \/ processOutgoing
    \/ \E w \in Senders : SendReturns(w)
DataNext == HubDataNext \/ AgentNext
DataSpec == DataInit /\ [][DataNext]_vars

\* An agent that serves, loses its stream and reconnects while its connection
\* manager, which lives as long as the Agent, goes on working.  The Hub's
\* goroutines take no step.
EgressInit == HubForwarding(1, {}) /\ AgentServing
EgressNext ==
    \/ AgentNext
    \/ SessionNext
    \/ \E t \in Tunnels : StreamFail(t)
    \/ \E t \in Tunnels : processOutgoingFails(t)
EgressSpec == EgressInit /\ [][EgressNext]_vars

\* The same agent, with targets that write to their connections: the
\* connections outlive the session that created them.  The egress worker
\* takes no step.
CarryNext ==
    \/ SessionNext
    \/ \E t \in Tunnels : StreamFail(t)
    \/ processIncoming(DataPacket(1, Payload(1, Len(aLog) + 1)))
    \/ \E i \in Packets : Dispatch(i)
    \/ \E i \in Packets : createConnection(i)
    \/ \E i \in Packets : safeSendToConnection(i)
    \/ \E i \in Packets : DispatchError(i)
    \/ \E lc \in Packets : processIncomingPackets(lc)
    \/ \E lc \in Packets : readData(lc)
    \/ \E lc \in Packets : readerSend(lc)
CarrySpec == EgressInit /\ [][CarryNext]_vars

\* The connection manager with one connection open, whose target writes, and
\* a caller that closes the manager while packets are dispatched.  The egress
\* worker takes no step.
ManagerInit == HubInit({}, {}) /\ AgentServing
ManagerNext ==
    \/ \E k \in AgentConnIds : processIncoming(DataPacket(k, <<>>))
    \/ \E k \in AgentConnIds : processIncoming(ErrorPacket(k, MsgUnknownConn))
    \/ \E i \in Packets : Dispatch(i)
    \/ \E i \in Packets : createConnection(i)
    \/ \E i \in Packets : safeSendToConnection(i)
    \/ \E i \in Packets : DispatchError(i)
    \/ \E w \in Senders : SendReturns(w)
    \/ \E lc \in Packets : processIncomingPackets(lc)
    \/ \E lc \in Packets : readFromConnection(lc)
    \/ \E lc \in Packets : readData(lc)
    \/ \E lc \in Packets : readerSend(lc)
    \/ ManagerClose
    \/ ManagerCloseOutgoing
ManagerSpec == ManagerInit /\ [][ManagerNext]_vars

\* The Agent while serve() runs, just after createConnection for the Hub's
\* opening packet of conn id 1: the packetConn is stored with the packet in its
\* incoming channel and processIncomingPackets has not taken it yet.
AgentBacklog ==
    /\ RunServes
    /\ aLog = <<DataPacket(1, <<>>)>>
    /\ rcvOn = [i \in Packets |-> IF i = 1 THEN 1 ELSE 0]
    /\ gp = [i \in Packets |-> IF i = 1 THEN "done" ELSE "none"]
    /\ glc = [i \in Packets |-> 0]
    /\ conns = [k \in AgentConnIds |-> IF k = 1 THEN 1 ELSE 0]
    /\ lcId = [i \in Packets |-> IF i = 1 THEN 1 ELSE 0]
    /\ lcIn = [i \in Packets |-> IF i = 1 THEN <<DataPacket(1, <<>>)>> ELSE <<>>]
    /\ lcClosed = [i \in Packets |-> FALSE]
    /\ lcOut = [i \in Packets |-> <<>>]
    /\ pw = [i \in Packets |-> IF i = 1 THEN "run" ELSE "off"]
    /\ lr = [i \in Packets |-> IF i = 1 THEN "run" ELSE "off"]
    /\ aOut = <<>>
    /\ aSent = <<>>
    /\ inSend = {}
    /\ pCtxDone = FALSE
    /\ aOutClosed = FALSE
    /\ aPanic = FALSE

\* The connection manager receiving packets faster than the writer of a
\* connection takes them.  The Hub's goroutines take no step.
BacklogInit == HubInit({}, {}) /\ AgentBacklog
BacklogSpec == BacklogInit /\ [][AgentNext]_vars

\* One request forwarding on a Tunnel, and the Agent at the other end of the
\* stream with the connection of that request open.  The client may go away,
\* the target may close its side, and DATA of the agent may reach the Hub.
EndToEndInit == HubForwarding(1, {1}) /\ AgentServing
EndToEndNext ==
    \/ \E h \in Requests : ClientDisconnect(h)
    \/ \E h \in Requests : ClientRead(h)
    \/ \E h \in Requests : ForwardReturn(h)
    \/ \E h \in Requests : closeWithError(Http(h))
    \/ \E h \in Requests : removePacketConn(Http(h))
    \/ \E h \in Requests : HandlerReturn(h)
    \/ \E h \in Requests : forwardAgentToClient(h)
    \/ \E t \in Tunnels, k \in AgentConnIds : handleDataPacket(t, k)
    \/ \E t \in Tunnels : StreamDelivers(t)
    \/ \E i \in Packets : Dispatch(i)
    \/ \E lc \in Packets : processIncomingPackets(lc)
    \/ \E lc \in Packets : readFromConnection(lc)
EndToEndSpec == EndToEndInit /\ [][EndToEndNext]_vars
\* The scheduler runs the goroutines of the Hub and of the Agent; the client,
\* the target and the packets of the agent's targets owe nothing.
FairEndToEndSpec ==
    /\ EndToEndSpec
    /\ \A h \in Requests :
          /\ WF_vars(ForwardReturn(h) \/ closeWithError(Http(h))
                        \/ removePacketConn(Http(h)) \/ HandlerReturn(h))
          /\ WF_vars(~clientOpen[h] /\ ClientRead(h))
          /\ WF_vars(forwardAgentToClient(h))
    /\ \A t \in Tunnels : WF_vars(StreamDelivers(t))
    /\ \A i \in Packets :
          /\ WF_vars(Dispatch(i))
          /\ WF_vars(processIncomingPackets(i))

\* An agent that connects, and one client request from its start: the handler
\* opens a packet connection and sends its two packets, the pump follows, and
\* the stream carries to the Agent what handleOutgoing sends.  The agent may
\* send DATA packets of its own.
FramingNext ==
    \/ \E t \in Tunnels : establishAndServe(t)
    \/ \E t \in Tunnels, c \in Clusters : NewTunnel(t, c)
    \/ \E t \in Tunnels : NewTunnelStore(t)
    \/ \E t \in Tunnels : Serve(t)
    \/ \E h \in Requests, c \in ClusterNames : GetTunnel(h, c)
    \/ \E h \in Requests : NewPacketConn(h)
    \/ \E h \in Requests : HijackerOk(h)
    \/ \E h \in Requests : HandlerSendLock(h)
    \/ \E h \in Requests : HandlerSend(h)
    \/ \E h \in Requests : Hijack(h)
    \/ \E h \in Requests : ClientRead(h)
    \/ \E h \in Requests : PumpSendLock(h)
    \/ \E h \in Requests : PumpSend(h)
    \/ \E h \in Requests : ClientDisconnect(h)
    \/ \E h \in Requests : ForwardReturn(h)
    \/ \E h \in Requests : closeWithError(Http(h))
    \/ \E h \in Requests : removePacketConn(Http(h))
    \/ \E h \in Requests : HandlerReturn(h)
    \/ \E t \in Tunnels, k \in AgentConnIds : handleDataPacket(t, k)
    \/ \E t \in Tunnels : StreamDelivers(t)
FramingSpec == ReconnectInit /\ [][FramingNext]_vars

\* The same connection manager, with a Hub that also sends packets whose code
\* Dispatch has no case for.
DispatchNext ==
    \/ AgentNext
    \/ \E k \in AgentConnIds : processIncoming(Packet(k, "DRAIN", <<>>, 0))
DispatchSpec == BacklogInit /\ [][DispatchNext]_vars

\* The same manager, with a Hub that also sends bytes for the connections:
\* every way a connection of the Agent ends.
LifecycleNext ==
    \/ ManagerNext
    \/ \E k \in AgentConnIds :
          processIncoming(DataPacket(k, Payload(k, Len(aLog) + 1)))
LifecycleSpec == ManagerInit /\ [][LifecycleNext]_vars

\* One request forwarding on a Tunnel whose agent sends DATA and ERROR packets.
ErrorInit == HubForwarding(1, {1}) /\ AgentIdle
ErrorNext ==
    \/ HubDataNext
    \/ \E t \in Tunnels, k \in ConnIds : handleErrorPacket(t, k)
ErrorSpec == ErrorInit /\ [][ErrorNext]_vars

\* The same request, with the 30 s context of its handler expiring while the
\* pumps run.
DeadlineNext == ErrorNext \/ \E h \in Requests : Timeout(h)
DeadlineSpec == ErrorInit /\ [][DeadlineNext]_vars

\* ------------------------------------------------------- observed quantities
\* The DATA payloads Tunnel t received for conn id k among its first n DATA
\* packets, in order of arrival.
RECURSIVE Produced(_, _, _)
Produced(t, k, n) ==
    IF n = 0 THEN <<>>
    ELSE IF recvLog[t][n] = k THEN Append(Produced(t, k, n - 1), Payload(k, n))
                              ELSE Produced(t, k, n - 1)

\* The DATA payloads waiting in pc.incomingChan.
Queued(h) ==
    LET q == SelectSeq(pcIn[h], LAMBDA p : p.Code = "DATA" /\ Len(p.Data) > 0)
    IN [i \in 1..Len(q) |-> q[i].Data]

\* The agent-to-client pump of request h runs on an open packet connection and
\* an open client socket.
Pumping(h) ==
    /\ hp[h] = "forward" /\ a2c[h] = "recv" /\ clientOpen[h]
    /\ ~pcClosed[h] /\ ~hCtxDone[h]

\* The Tunnels created for cluster c whose closed flag is not set.
OpenTunnels(c) == {t \in Tunnels : tId[t] # 0 /\ tCluster[t] = c /\ ~tClosed[t]}

\* Tunnel t was created and another Tunnel has the registry entry of its cluster.
Replaced(t) == tId[t] # 0 /\ tunnels[tCluster[t]] \notin {t, Nil}

\* A goroutine is inside pc.Send of request h, past the closed check, holding
\* pc.mu.
InSend(h) == hp[h] \in {"sendOpenL", "sendReqL"} \/ c2a[h] = "sendL"

\* ------------------------------------------------------------------ claims
\* C1: the payloads the Agent writes to a local connection are in the order in
\* which processIncoming received their packets (a payload carries the position
\* of its packet in the stream).
C1_AgentWritesInReceiveOrder ==
    \A lc \in Packets : \A a, b \in 1..Len(lcOut[lc]) :
        a < b => lcOut[lc][a][2] < lcOut[lc][b][2]

\* C2: while a packet connection is open and its pump writes to an open client
\* socket, the DATA payloads written so far, followed by those still queued,
\* are the DATA payloads the Tunnel received for its conn id, in order: none
\* dropped, duplicated or reordered.
C2_ClientGetsWhatAgentProduced ==
    \A h \in Requests :
        Pumping(h) =>
            written[h] \o Queued(h) = Produced(hTun[h], pcId[h], Len(recvLog[hTun[h]]))

\* C3: Tunnel.Close() called on a serving Tunnel with registered open
\* PacketConns returns, and when it has returned every PacketConn that was
\* registered is closed, the map is empty and the outgoing queue is closed.
C3_CloseReturnsAllClosed ==
    /\ \A t \in Tunnels : (cStage[t] = "range") ~> (cStage[t] = "none")
    /\ [][\A t \in Tunnels :
            (cStage[t] = "range" /\ cStage'[t] = "none") =>
                LET x == cTarget[t] IN
                /\ tConns'[x] = {}
                /\ tOut'[x].st = "closed"
                /\ \A h \in tConns[x] : pcClosed'[h]]_vars

\* C4: NewTunnel called while a Tunnel is registered for the cluster returns,
\* and when it stores the new Tunnel the old one has its closed flag set and
\* every packet connection created on it is closed.
C4_ReplaceClosesOldAndReturns ==
    /\ \A t \in Tunnels : (sp[t] = "replace") ~> (sp[t] = "serve")
    /\ [][\A t \in Tunnels :
            (sp[t] = "replace" /\ sp'[t] = "serve") =>
                LET old == tunnels[tCluster[t]] IN
                /\ tClosed[old]
                /\ \A h \in Requests :
                      (pcId[h] # 0 /\ hTun[h] = old) => pcClosed[h]]_vars

\* C5: after the Hub has read a DRAIN packet from an agent, that agent's
\* Tunnel is eventually closed and no longer the registry entry of its
\* cluster, and Server.Tunnel has returned, whatever packet connections were
\* open when DRAIN was read.
C5_DrainClosesAndUnregisters ==
    \A t \in Tunnels :
        drained[t] ~> (tClosed[t] /\ tunnels[tCluster[t]] # t /\ sp[t] = "done")

\* C6: every packet connection the Hub creates is eventually closed and
\* absent from the map of its Tunnel.
C6_EveryPacketConnClosedAndRemoved ==
    \A h \in Requests :
        (pcId[h] # 0) ~> (pcClosed[h] /\ h \notin tConns[hTun[h]])

\* C7: among the Tunnels created for a cluster name, at most one is not
\* closed (the registry being a map, a name has at most one entry).
C7_AtMostOneOpenTunnel ==
    \A c \in Clusters : Cardinality(OpenTunnels(c)) <= 1

\* C8: once another Tunnel has taken the registry entry of a Tunnel, the
\* replaced Tunnel's Server.Tunnel call eventually returns, and the replaced
\* Tunnel is never the registry entry again.
C8_ReplacedServeReturns ==
    /\ \A t \in Tunnels : Replaced(t) ~> (sp[t] = "done")
    /\ [][\A t \in Tunnels :
            Replaced(t) => tunnels'[tCluster[t]] # t]_vars

\* C9: every payload written to the client socket of a packet connection was
\* carried with that connection's id (or is the 502 the Hub writes itself), and
\* every payload written to a local connection of the Agent was carried with
\* that connection's id.
C9_NoCrossDelivery ==
    /\ \A h \in Requests : \A a \in 1..Len(written[h]) :
          \/ written[h][a] = BadGateway(written[h][a][2])
          \/ written[h][a][1] = pcId[h]
    /\ \A lc \in Packets : \A a \in 1..Len(lcOut[lc]) :
          lcOut[lc][a][1] = lcId[lc]

\* C9, its case: two conn ids of one Tunnel have both had a payload delivered.
C9_TwoConnsDelivered ==
    /\ hTun[1] = hTun[2] /\ pcId[1] # pcId[2]
    /\ Len(written[1]) > 0 /\ Len(written[2]) > 0

\* C10: a Send that has passed the closed check of its packet connection never
\* finds the outgoing queue closed, and every Send returns, also when the
\* Tunnel is being closed.
C10_SendNeverPanicsAndReturns ==
    /\ [](\A h \in Requests : InSend(h) => "panic" \notin sendPacket(hTun[h]))
    /\ \A h \in Requests : InSend(h) ~> ~InSend(h)


\* A goroutine is inside pc.Send of request h on an open packet connection of
\* an open Tunnel whose outgoing queue is full.
SendOnFullQueue(h) ==
    /\ InSend(h) /\ ~pcClosed[h]
    /\ ~tClosed[hTun[h]] /\ tOut[hTun[h]].st = "open"
    /\ Len(tOut[hTun[h]].q) >= OutgoingCap

\* C11: a Send on an open packet connection of an open Tunnel whose outgoing
\* queue is full can always take its step (no lock it needs is held), and the
\* step returns an error (502 from the handler, the end of the pump) and leaves
\* every outgoing queue as it was.
C11_SendOnFullQueueFails ==
    /\ [](\A h \in Requests : SendOnFullQueue(h) => tMu[hTun[h]] = NoOne)
    /\ [][\A h \in Requests :
            (SendOnFullQueue(h) /\ ~InSend(h)') =>
                /\ tOut' = tOut
                /\ \/ hp[h] \in {"sendOpenL", "sendReqL"}
                      /\ hp'[h] = "closing" /\ status'[h] = 502
                   \/ c2a[h] = "sendL" /\ c2a'[h] = "exited"]_vars

\* C11, its case: the pump of a request ended on an open packet connection,
\* an open client socket and a live stream: its Send found the queue full.
C11_SendRefused ==
    \E h \in Requests :
        /\ c2a[h] = "exited" /\ clientOpen[h] /\ ~pcClosed[h]
        /\ ~tClosed[hTun[h]] /\ ~streamDone[hTun[h]]
        /\ Len(tOut[hTun[h]].q) = OutgoingCap


\* The conn ids NewPacketConn has returned on Tunnel t so far.
AssignedIds(t) == {pcId[g] : g \in {g \in Requests : hTun[g] = t /\ pcId[g] # 0}}

\* Request h takes the step that returns from NewPacketConn.
NewPacketConnReturns(h) == hp[h] = "newpc" /\ hp'[h] # "newpc"

\* C12: NewPacketConn returns; on a Tunnel that is closed or not initialized
\* it returns an error (answered 503), registers nothing and leaves the next
\* conn id alone; on an initialized open Tunnel the packet connection it
\* returns is the one registered under its conn id, which no earlier call on
\* that Tunnel returned.
C12_NewPacketConnFailsOrRegisters ==
    /\ \A h \in Requests : (hp[h] = "newpc") ~> (hp[h] # "newpc")
    /\ [][\A h \in Requests :
            NewPacketConnReturns(h) =>
                LET t == hTun[h] IN
                IF ~tInit[t] \/ tClosed[t]
                  THEN /\ status'[h] = 503 /\ hp'[h] = "done"
                       /\ tConns' = tConns /\ tNext' = tNext /\ pcId' = pcId
                  ELSE /\ hp'[h] = "assert" /\ status'[h] = 0
                       /\ pcId'[h] \notin AssignedIds(t) \cup {0}
                       /\ {g \in tConns'[t] : pcId'[g] = pcId'[h]} = {h}]_vars

\* C13: the conn ids one Tunnel has handed out are 1, 2, ... without gap or
\* repetition, and each NewPacketConn returns an id above all those returned
\* before it on that Tunnel, whether or not their packet connections are
\* still registered.
C13_ConnIdsStrictlyIncreasing ==
    /\ [](\A t \in Tunnels :
            /\ AssignedIds(t) = 1..tNext[t]
            /\ \A g, h \in Requests :
                  (g # h /\ hTun[g] = t /\ hTun[h] = t /\ pcId[g] # 0) =>
                      pcId[g] # pcId[h])
    /\ [][\A h \in Requests :
            (NewPacketConnReturns(h) /\ pcId'[h] # 0) =>
                /\ \A k \in AssignedIds(hTun[h]) : pcId'[h] > k
                /\ AssignedIds(hTun[h]) = {} => pcId'[h] = 1]_vars

\* C13, its case: the packet connection with conn id 1 is closed and removed,
\* and the same Tunnel has registered another one, with conn id 2.
C13_SecondIdAfterClose ==
    \E g, h \in Requests :
        /\ hTun[g] = hTun[h] /\ pcId[g] = 1 /\ pcId[h] = 2
        /\ pcClosed[g] /\ g \notin tConns[hTun[g]]
        /\ ~pcClosed[h] /\ h \in tConns[hTun[h]]

BadGateways(h) == {a \in 1..Len(written[h]) : written[h][a][1] = 502}

\* An ERROR packet waits in pc.incomingChan.
ErrorQueued(h) == \E a \in 1..Len(pcIn[h]) : pcIn[h][a].Code = "ERROR"

\* A goroutine of packetConn lc ends: readFromConnection returns, or
\* processIncomingPackets does.
ReaderReturns(lc) == lr[lc] = "run" /\ lr'[lc] = "exited"
WriterReturns(lc) == pw[lc] = "run" /\ pw'[lc] = "exited"

\* C14: a Tunnel.Close() on a closed Tunnel changes nothing of any Tunnel or
\* packet connection, and no Close closes an outgoing queue that is closed;
\* a closeWithError on a closed packet connection changes nothing (the close
\* error stays); and when a goroutine of an Agent packetConn that is already
\* closed ends, with or without calling removeConnection once more, the
\* connection map and every packetConn stay as they are.
C14_SecondCloseChangesNothing ==
    /\ [][\A t \in Tunnels :
            /\ (cStage[t] = "lock" /\ cStage'[t] # "lock" /\ tClosed[cTarget[t]]) =>
                  /\ <<tId, tClosed, tInit, tOut, tConns, tNext, tMu>>' =
                         <<tId, tClosed, tInit, tOut, tConns, tNext, tMu>>
                  /\ <<pcClosed, pcErr, pcCancelled>>' = <<pcClosed, pcErr, pcCancelled>>
            /\ (cStage[t] = "range" /\ cStage'[t] = "none") =>
                  tOut[cTarget[t]].st # "closed"]_vars
    /\ [][\A x \in Threads :
            (cw[x].stage = "lock" /\ cw'[x].stage # "lock" /\ pcClosed[cw[x].pc]) =>
                /\ <<pcClosed, pcErr, pcCancelled, pcIn>>' =
                       <<pcClosed, pcErr, pcCancelled, pcIn>>
                /\ tConns' = tConns /\ cw'[x] = NoFrame]_vars
    /\ [][\A lc \in Packets :
            (lcClosed[lc] /\ (ReaderReturns(lc) \/ WriterReturns(lc))) =>
                conns' = conns /\ lcClosed' = lcClosed]_vars

\* C15: a client socket carries at most one 502, it is the last thing
\* written and it carries the agent's error message; and while a packet
\* connection for which the reader received an ERROR packet is open, with its
\* client connected, the ERROR packet is queued for its owner or the 502 has
\* been written.
C15_ErrorBecomesBadGateway ==
    \A h \in Requests :
        /\ \A a \in BadGateways(h) :
              a = Len(written[h]) /\ written[h][a] = BadGateway(MsgAgent)
        /\ (/\ hp[h] = "forward" /\ pcId[h] \in errLog[hTun[h]]
            /\ clientOpen[h] /\ ~pcClosed[h] /\ ~hCtxDone[h]) =>
              (ErrorQueued(h) \/ BadGateways(h) # {})

\* C17: when a read from or a write to the local connection of an open
\* packetConn with conn id k fails, the step removes the map entry of k and
\* no other, closes no packetConn but the one that entry held, and puts an
\* ERROR packet with conn id k on the outgoing queue or on the stream.
C17_IoFailureRemovesAndReports ==
    [][\A lc \in Packets :
        (~lcClosed[lc] /\ (ReaderReturns(lc) \/ WriterReturns(lc))) =>
            LET k == lcId[lc] IN
            /\ conns' = [conns EXCEPT ![k] = 0]
            /\ \A j \in Packets : j # conns[k] => lcClosed'[j] = lcClosed[j]
            /\ \E msg \in {MsgAgent, MsgDispatch} :
                  \/ aOut' = Append(aOut, ErrorPacket(k, msg))
                  \/ aSent' = Append(aSent, ErrorPacket(k, msg))]_vars

\* C18: the step in which the dial for the DATA packet of an unknown conn id
\* fails registers no connection, and the goroutine of that packet then sends
\* an ERROR packet with the packet's conn id and the failure as its message on
\* the stream.
C18_DialFailureReported ==
    [][\A i \in Packets :
        /\ (gp[i] = "create" /\ gp'[i] # "create" /\ lcId'[i] = 0) =>
              /\ gp'[i] = "report"
              /\ conns' = conns /\ lcId' = lcId /\ lcClosed' = lcClosed
        /\ (gp[i] = "report" /\ gp'[i] # "report") =>
              /\ aSent' = Append(aSent, ErrorPacket(aLog[i].ConnId, MsgDispatch))
              /\ aSent'[Len(aSent')].ErrorMessage # 0]_vars

\* C18, its case: the dial for conn id 2 failed (no packetConn was ever made
\* for it), the map has no entry for it and its ERROR packet is on the stream.
C18_DialFailed ==
    /\ conns[2] = 0 /\ \A i \in Packets : lcId[i] # 2
    /\ \E i \in 1..Len(aLog) : aLog[i].ConnId = 2 /\ gp[i] = "done"
    /\ \E a \in 1..Len(aSent) : aSent[a] = ErrorPacket(2, MsgDispatch)

\* The session on stream t has ended and the main loop waits for its timer.
SessionEnded(t) == aStream = t /\ ap = "backoff"

\* A Tunnel of a later session than t is in the registry.
RegisteredAfter(t) == \E c \in Clusters : tunnels[c] # Nil /\ tunnels[c] > t

\* C19: when a session ends while ctx is not cancelled, the Agent waits for the
\* backoff timer and attempts a new session, and with a Hub that can be
\* reached a Tunnel of the cluster is eventually registered again.
C19_ReconnectRegistersTunnel ==
    \A t \in 1..(MaxSessions - 1) :
        (SessionEnded(t) /\ ~aCtxDone) ~> (aCtxDone \/ RegisteredAfter(t))


\* The step in which conn.Close() tears down the connection of the stream.
Teardown == aConnOpen /\ ~aConnOpen'

\* The step in which Run() returns.
RunReturns == aRun = "run" /\ aRun' = "returned"

\* C20: once ctx is cancelled with a stream active, the connection of the
\* stream is torn down only after the DRAIN packet was sent on the stream or
\* its send attempt timed out; Run() returns only after the teardown; and no
\* new session is started.
C20_DrainBeforeTeardown ==
    [][/\ (aCtxDone /\ Teardown) => drain \in {"sent", "timeout"}
       /\ (aCtxDone /\ RunReturns) => ~aConnOpen
       /\ aCtxDone => aStream' = aStream]_vars


ForwardEnds(h) == hp[h] = "forward" /\ hp'[h] = "closing"

\* handleIncoming receives a DATA packet for the open packet connection of
\* request h, whose queue has room.
DataArrives(h) ==
    /\ hp[h] = "forward" /\ ~pcClosed[h] /\ ~pcCancelled[h]
    /\ Len(pcIn[h]) < IncomingCap
    /\ \E t \in Tunnels :
          /\ Len(recvLog'[t]) = Len(recvLog[t]) + 1
          /\ h \in Lookup(t, recvLog'[t][Len(recvLog'[t])])

\* C22: a PacketConn whose pumps run is closed only when a pump has ended
\* (client disconnect, an ERROR of the agent, the Tunnel's close); the expiry
\* of the 30 s deadline of the request neither makes the handler close it nor
\* makes a DATA packet for it be dropped.
C22_DeadlineChangesNothing ==
    [][\A h \in Requests :
          /\ ForwardEnds(h) => (c2a[h] = "exited" \/ a2c[h] = "exited")
          /\ DataArrives(h) => Len(pcIn'[h]) = Len(pcIn[h]) + 1]_vars

\* Server.Tunnel of stream t returns from RemoveTunnel(clusterName, conn.ID()).
CleanupRemoves(t) == sp[t] = "cleanup" /\ sp'[t] = "done"

\* C23: RemoveTunnel(name, id) deletes the entry of name only if the
\* registered Tunnel is the one with that id: the end-of-stream cleanup of a
\* Tunnel leaves the entry of any other Tunnel, its replacement included, in
\* the registry.
C23_RemoveKeepsReplacement ==
    [][\A t \in Tunnels :
          CleanupRemoves(t) =>
              \A c \in Clusters : tunnels[c] # t => tunnels'[c] = tunnels[c]]_vars

\* The packetConns the Agent dialed and has not closed.
LiveLocalConns == {i \in Packets : lcId[i] # 0 /\ ~lcClosed[i]}

\* C24: for each conn id the Agent has at most one dialed local connection
\* that is not closed, and every such connection is the entry of its id in the
\* connection map.
C24_OneLocalConnPerId ==
    \A i \in LiveLocalConns : conns[lcId[i]] = i

\* The connection of conn id k was closed and its entry removed.
Terminal(k) == conns[k] = 0 /\ \E i \in Packets : lcId[i] = k /\ lcClosed[i]

\* The goroutine of packet i, a DATA packet, makes the lookup of Dispatch.
DataLookup(i) == gp[i] = "dispatch" /\ gp'[i] # "dispatch" /\ aLog[i].Code = "DATA"

\* C25: a DATA packet dispatched for a conn id whose connection is terminal
\* is dropped: the goroutine ends without dialing, and from then on no
\* packetConn is made for the id.
C25_LateDataDropped ==
    [][\A i \in Packets :
          /\ (DataLookup(i) /\ Terminal(aLog[i].ConnId)) => gp'[i] = "done"
          /\ (lcId[i] = 0 /\ lcId'[i] # 0) => ~Terminal(lcId'[i])]_vars

\* C26: at most one goroutine of the Agent at a time is inside Send on the
\* gRPC stream: neither the ERROR reply of a failed dispatch nor the DRAIN
\* send runs while the egress worker, or another of them, is in Send.
C26_OneSenderAtATime == Cardinality(inSend) <= 1

\* A packet leaves p.outgoing.
PacketTaken == Len(aOut') < Len(aOut)

\* C27: at most one processOutgoing goroutine receives from p.outgoing, and a
\* packet that leaves p.outgoing is sent on the stream of the session: no
\* goroutine of an ended session takes it.
C27_OneEgressWorker ==
    [][/\ Cardinality(egress') <= 1
       /\ PacketTaken => Len(aSent') = Len(aSent) + 1]_vars

\* A goroutine of packetConn lc ends from its send, or from reading.
ReaderEnds(lc) == lr[lc] \in {"run", "send"} /\ lr'[lc] = "exited"

\* C28: whatever the interleaving of a reader ending, a writer's failed write,
\* an ERROR packet, the manager's Close() and the Dispatch goroutines, a
\* goroutine of a packetConn that ends changes the map entry of its conn id
\* only when the entry is its own packetConn, and no goroutine panics without
\* recovery on a closed queue.
C28_RemovalSafeUnderRaces ==
    [][/\ \A lc \in Packets :
             (ReaderEnds(lc) \/ WriterReturns(lc)) =>
                 \A k \in AgentConnIds : conns'[k] # conns[k] => conns[k] = lc
       /\ ~aPanic']_vars

\* Server.Tunnel of stream t has returned: Serve returned and RemoveTunnel ran.
TunnelGone(t) == sp[t] = "done"

\* C29: when Serve() of a Tunnel has returned and the Tunnel was removed from
\* the registry, handleIncoming and handleOutgoing have both exited, and from
\* then on the Tunnel's outgoing queue is not received from.
C29_WorkersExitBeforeGone ==
    [][\A t \in Tunnels :
          /\ TunnelGone(t)' => (rd'[t] = "exited" /\ wr'[t] = "exited")
          /\ TunnelGone(t) => Len(tOut'[t].q) >= Len(tOut[t].q)]_vars

\* The front-end of request h is finished with a connection it had hijacked:
\* forwardTraffic returned, the deferred clientConn.Close() and pc.Close(nil)
\* ran and ServeHTTP returned.
FrontEndClosed(h) ==
    /\ hp[h] = "done" /\ a2c[h] # "off"
    /\ pcClosed[h] /\ ~clientOpen[h]

\* C30: after the HTTP front-end has closed the packet connection and the
\* hijacked client socket of a request, the client-to-agent pump and the
\* agent-to-client pump of that request both eventually exit.
C30_PumpsExitAfterClose ==
    \A h \in Requests :
        FrontEndClosed(h) ~> (c2a[h] = "exited" /\ a2c[h] = "exited")

\* The Dispatch goroutine of packet i ends after safeSendToConnection failed
\* for the packetConn it had found in the map: its error is reported.
EnqueueFailureHandled(i) ==
    /\ gp[i] = "report" /\ gp'[i] = "done"
    /\ glc[i] # 0

\* C31: when the Agent fails to enqueue a DATA packet for a known conn id (the
\* incoming queue is still full after the timed retry, or the connection is
\* closing), the id is dropped: by the time the failure has been handled the
\* packetConn is closed and is no longer the map's entry for the id, so no
\* later DATA packet reaches the same local connection.
C31_FailedEnqueueDropsId ==
    [][\A i \in Packets :
          EnqueueFailureHandled(i) =>
              /\ lcClosed'[glc[i]]
              /\ conns'[aLog[i].ConnId] # glc[i]]_vars

\* handleIncoming of Tunnel t receives a DATA packet whose conn id is not in
\* t.packetConns: handleDataPacket goes to its send of an ERROR packet on
\* t.outgoingChan.
UnknownDataArrives(t) ==
    /\ rd[t] = "run"
    /\ Len(recvLog'[t]) = Len(recvLog[t]) + 1
    /\ Lookup(t, recvLog'[t][Len(recvLog'[t])]) = {}

\* C32: the Reader of a Tunnel never sends on the Tunnel's outgoing queue after
\* Tunnel.Close() has closed it: a DATA packet for an unregistered conn id that
\* arrives after Close() causes no send on the closed queue, and no panic.
C32_NoReaderSendAfterClose ==
    [][/\ \A t \in Tunnels : UnknownDataArrives(t) => tOut[t].st # "closed"
       /\ (\E t \in Tunnels : UnknownDataArrives(t)) => crashed' = crashed]_vars

\* The stream packetConn lc belongs to: the one its first packet came on.
SessionOf(lc) == rcvOn[lc]

\* The packet whose bytes are chunk, by the serial number the bytes carry.
PacketOf(chunk) == chunk[2]

\* readFromConnection of lc puts a DATA packet in p.outgoing.
ReaderQueues(lc) == lr[lc] = "send" /\ lr'[lc] = "run"

\* C33: after the Agent has re-established its stream, the bytes of a DATA
\* packet received in the new session are never written to a local connection
\* created in an earlier session, and no DATA read from a local connection of
\* an earlier session is queued for the new stream.
C33_NoCarryOverAcrossSessions ==
    /\ [](\A lc \in Packets : \A j \in 1..Len(lcOut[lc]) :
             rcvOn[PacketOf(lcOut[lc][j])] = SessionOf(lc))
    /\ [][\A lc \in Packets : ReaderQueues(lc) => SessionOf(lc) = aStream]_vars

\* The packet connection of request h was closed by its handler, with no
\* error, after the client went away.
ClosedForClient(h) ==
    /\ pcId[h] # 0 /\ pcClosed[h] /\ pcErr[h] = 0
    /\ ~clientOpen[h]

\* The Agent has no open connection for conn id k.
AgentConnGone(k) ==
    /\ conns[k] = 0
    /\ \A lc \in Packets : lcId[lc] = k => lcClosed[lc]

\* C34: when a packet connection of the Hub is closed because its client
\* disconnected, the Agent's local connection for the same conn id is
\* eventually closed and its entry removed, whether or not the target closes
\* the socket on its own.
C34_ClientCloseReachesAgent ==
    \A h \in Requests, k \in AgentConnIds :
        (ClosedForClient(h) /\ pcId[h] = k) ~> AgentConnGone(k)

\* What handleOutgoing of Tunnel t has sent and will send on its stream, in
\* order: the packets the Agent received, then those in t.outgoingChan.
StreamOf(t) == aLog \o tOut[t].q

\* The packets of the stream of request h's Tunnel that carry the conn id of
\* its packet connection and one of the codes.
SentFor(h, codes) ==
    SelectSeq(StreamOf(hTun[h]), LAMBDA p : p.ConnId = pcId[h] /\ p.Code \in codes)

\* S starts with the empty DATA packet, then the serialized request (serial
\* number 0); the chunks of the pump (serial numbers from 1) come after both.
Framed(S, k) ==
    /\ Len(S) >= 1 => S[1] = DataPacket(k, <<>>)
    /\ Len(S) >= 2 => S[2] = DataPacket(k, Payload(k, 0))
    /\ \A j \in 1..Len(S) :
          (S[j].Code = "DATA" /\ Len(S[j].Data) > 0 /\ S[j].Data[2] >= 1) => j >= 3

DispatchFails(i) == gp[i] # "report" /\ gp'[i] = "report"
DispatchFailureSent(i) == gp[i] = "report" /\ gp'[i] = "done"

\* The ERROR packet for packet i is among those sent on the stream.
ErrorSentFor(i) ==
    \E a \in 1..Len(aSent) : aSent[a] = ErrorPacket(aLog[i].ConnId, MsgDispatch)

\* C36: when Dispatch fails for a packet with conn id k, a packet with a code
\* Dispatch does not know included, the Agent sends an ERROR packet with conn
\* id k and the failure as its message on the stream, the session keeps
\* serving, and no connection is changed: neither the map, nor a packetConn,
\* nor its incoming queue.
C36_DispatchFailureReported ==
    /\ [](\A i \in 1..Len(aLog) :
             (gp[i] = "done" /\ aLog[i].Code \notin {"DATA", "ERROR"}) => ErrorSentFor(i))
    /\ [][\A i \in Packets :
             /\ DispatchFailureSent(i) =>
                   /\ aSent' = Append(aSent, ErrorPacket(aLog[i].ConnId, MsgDispatch))
                   /\ aSent'[Len(aSent')].ErrorMessage # 0
             /\ (DispatchFails(i) \/ DispatchFailureSent(i)) =>
                   /\ aServing' /\ ap' = ap /\ aRecv' = aRecv
                   /\ conns' = conns /\ lcClosed' = lcClosed /\ lcIn' = lcIn
                   /\ pw' = pw /\ lr' = lr]_vars

\* C36, its case: a packet with an unknown code for conn id 2 was answered
\* with an ERROR for conn id 2 while the connection of conn id 1 is open.
C36_UnknownCodeAnswered ==
    /\ \E i \in 1..Len(aLog) :
          /\ aLog[i] = Packet(2, "DRAIN", <<>>, 0) /\ gp[i] = "done"
          /\ ErrorSentFor(i)
    /\ conns[1] = 1 /\ ~lcClosed[1]

\* packetConn lc is Closed: its context is cancelled, its local connection and
\* its incoming queue are closed, and the map does not hold it.
AgentConnClosed(lc) == lcClosed[lc] /\ conns[lcId[lc]] # lc

\* The goroutine of packet i, an ERROR packet, runs handleErrorPacket.
ErrorDispatched(i) ==
    /\ gp[i] = "dispatch" /\ gp'[i] = "done"
    /\ aLog[i].Code = "ERROR"

\* C37: an open connection of the Agent is brought to Closed (context
\* cancelled, local connection closed, incoming queue closed, map entry
\* deleted) by a local read error or EOF, by a local write error, by an
\* inbound ERROR for its id and by the cancellation of the manager's context:
\* once one of its goroutines has ended for any of these the connection is
\* Closed, an ERROR for its id closes it, and an ERROR for an id the map does
\* not hold changes nothing.
C37_EveryEndClosesConnection ==
    /\ [](\A lc \in Packets :
             (lcId[lc] # 0 /\ (lr[lc] = "exited" \/ pw[lc] = "exited")) =>
                 AgentConnClosed(lc))
    /\ [][\A i \in Packets :
             ErrorDispatched(i) =>
                 LET k == aLog[i].ConnId IN
                 IF conns[k] = 0
                   THEN /\ conns' = conns /\ lcClosed' = lcClosed /\ lcIn' = lcIn
                        /\ pw' = pw /\ lr' = lr /\ aOut' = aOut /\ aSent' = aSent
                   ELSE /\ conns'[k] = 0 /\ lcClosed'[conns[k]]
                        /\ \A lc \in Packets :
                              (lcId[lc] = k /\ lr[lc] # "off") => lcClosed'[lc]]_vars

\* C38: when the Reader of a Tunnel receives a DATA packet whose conn id is not
\* registered, the step puts an ERROR packet with that conn id at the end of
\* the outgoing queue, or leaves the queue as it is when it is full; it does
\* not block or panic, and it changes no packet connection.
C38_UnknownDataAnswered ==
    [][\A t \in Tunnels :
          UnknownDataArrives(t) =>
              LET k == recvLog'[t][Len(recvLog'[t])]
                  q == tOut[t].q
              IN /\ tOut'[t].q = IF Len(q) < OutgoingCap
                                   THEN Append(q, ErrorPacket(k, MsgUnknownConn))
                                   ELSE q
                 /\ \A x \in Tunnels \ {t} : tOut'[x] = tOut[x]
                 /\ crashed' = crashed
                 /\ pcVars' = pcVars /\ tConns' = tConns]_vars

\* The packets with bytes for the conn id of packetConn lc that the Agent
\* received from the packet that created lc on.
DataFor(lc) ==
    {i \in lc..Len(aLog) :
        aLog[i].ConnId = lcId[lc] /\ aLog[i].Code = "DATA" /\ Len(aLog[i].Data) > 0}

\* The goroutine of packet i, an empty DATA packet for a conn id the map does
\* not hold, looks the id up; and its createConnection makes the packetConn.
OpensUnknown(i) ==
    /\ gp[i] = "dispatch" /\ gp'[i] # "dispatch"
    /\ aLog[i].Code = "DATA" /\ aLog[i].Data = <<>> /\ conns[aLog[i].ConnId] = 0
Created(i) == gp[i] = "create" /\ lcId[i] = 0 /\ lcId'[i] # 0

\* processIncomingPackets of lc takes an empty packet from lc.incoming.
TakesEmpty(lc) ==
    /\ lcIn[lc] # <<>> /\ Len(Head(lcIn[lc]).Data) = 0
    /\ lcIn'[lc] = Tail(lcIn[lc])

\* C39: a DATA packet with empty data for an unknown conn id creates and
\* registers the Agent connection and causes no write to its local
\* connection; the first bytes written to that local connection are those of
\* the first non-empty DATA packet for the id.
C39_EmptyDataOpensOnly ==
    /\ [][\A i \in Packets :
             /\ OpensUnknown(i) => gp'[i] = "create" /\ lcOut' = lcOut
             /\ Created(i) =>
                   /\ lcId'[i] = aLog[i].ConnId /\ conns'[aLog[i].ConnId] = i
                   /\ lcOut'[i] = <<>>
             /\ TakesEmpty(i) => lcOut' = lcOut]_vars
    /\ [](\A lc \in Packets :
             (lcId[lc] # 0 /\ lcOut[lc] # <<>>) =>
                 \A i \in DataFor(lc) : PacketOf(lcOut[lc][1]) <= i)

\* C40: when the handler of a request closes its packet connection after the
\* client went away, the first step (closeWithError) marks that packet
\* connection closed and leaves the Tunnel's map alone, the second
\* (removePacketConn) removes that packet connection's conn id from the map
\* of its Tunnel and nothing else; through both the Tunnel stays open and
\* initialized, its next conn id and its outgoing queue are unchanged, and so
\* are the fields, the incoming queue and the registration of every other
\* packet connection.
ClosesOwn(h) == cw[Http(h)].stage = "lock" /\ cw'[Http(h)].stage # "lock"
RemovesOwn(h) == cw[Http(h)].stage = "remove" /\ cw'[Http(h)].stage = "none"
OthersKept(h) ==
    /\ <<tId, tClosed, tInit, tNext, tOut>>' = <<tId, tClosed, tInit, tNext, tOut>>
    /\ pcId' = pcId /\ pcIn' = pcIn
    /\ \A g \in Requests \ {h} :
          /\ <<pcClosed[g], pcErr[g], pcCancelled[g]>>' =
                 <<pcClosed[g], pcErr[g], pcCancelled[g]>>
          /\ \A t \in Tunnels : g \in tConns'[t] <=> g \in tConns[t]
C40_CloseRemovesOnlyOwnId ==
    [][\A h \in Requests :
          /\ ClosesOwn(h) => OthersKept(h) /\ tConns' = tConns /\ pcClosed'[h]
          /\ RemovesOwn(h) =>
                /\ OthersKept(h)
                /\ <<pcClosed[h], pcErr[h], pcCancelled[h]>>' =
                       <<pcClosed[h], pcErr[h], pcCancelled[h]>>
                /\ tConns' = [tConns EXCEPT ![hTun[h]] = @ \ {h}]
                /\ \A g \in tConns'[hTun[h]] : pcId[g] # pcId[h]]_vars

\* C40, its case: a client went away and its packet connection is closed and
\* out of the map, while the Tunnel is open and still holds another, open
\* packet connection and packets in its outgoing queue.
C40_OtherConnStillRegistered ==
    \E g, h \in Requests :
        /\ g # h /\ hTun[g] = hTun[h]
        /\ ~clientOpen[g] /\ hp[g] = "closing" /\ cw[Http(g)].stage = "none"
        /\ pcClosed[g] /\ g \notin tConns[hTun[g]]
        /\ ~pcClosed[h] /\ h \in tConns[hTun[h]] /\ pcId[h] < pcId[g]
        /\ ~tClosed[hTun[h]] /\ tOut[hTun[h]].st = "open" /\ tOut[hTun[h]].q # <<>>

====
